---- MODULE Spec2Model ----
(***************************************************************************)
(* Model of the polling / harvesting runtime of the repository:           *)
(*   - alf/src/scheduler.py            Scheduler (tick-driven batches)     *)
(*   - alf/src/classifieds/storage.py  ClassifiedStorage (dedup writer)    *)
(*   - ellis/auth.py                   AuthManager                         *)
(*   - ellis/feed.py                   OddsFeed                            *)
(*   - ellis/pubsub.py                 EventBus                            *)
(* The components do not share state, so each has its own specification    *)
(* (SpecSched, SpecStore, SpecAuth, SpecFeed, SpecBus) over its own        *)
(* variables; the variables of the other components stay at their initial  *)
(* values.                                                                 *)
(***************************************************************************)
EXTENDS Integers, Sequences, FiniteSets, TLC

VARIABLES
    \* ---- Scheduler (alf/src/scheduler.py)
    sched_pc,          \* position of the thread inside run_forever
    stop,              \* Scheduler._stop
    batch_count,       \* Scheduler._batch_count
    sleep_i,           \* the loop variable of `for _ in range(self._interval)`
    batches_failed,    \* history: number of batches in which client.run() raised
    begun_after_stop,  \* history: batches begun while _stop was already True
    stop_set_at,       \* history: sched_pc at which the first signal set _stop
    slept_after_stop,  \* history: time.sleep(1) calls that returned with _stop True
    \* ---- ClassifiedStorage (alf/src/classifieds/storage.py)
    files,             \* the destination files: state ("absent", "ok", "corrupt": text that is not JSON, "undecodable": bytes that are not UTF-8) and JSON array
    lock,              \* holder of each destination's sibling .lock file, or "none"
    save_pc,           \* per caller: position inside save / _write_group / _merge_and_write
    groups,            \* per caller: the buckets of `groups` not yet written, in dict order
    existing,          \* per caller: the array _merge_and_write read from the file
    total_written,     \* per caller: the local total_written of save
    save_ret,          \* per caller: value returned by the last completed save (-1: none)
    timed_out,         \* history, per caller: buckets of the current / last save skipped on filelock.Timeout
    offered,           \* history, per destination: ids of all buckets save has finished with
    dropped,           \* history, per destination: ids of the buckets skipped on filelock.Timeout
    accepted,          \* history, per destination: ids of the buckets that got the lock
    files0,            \* history: the destination files before the first save
    saves_begun,       \* history: number of save calls made so far
    writes,            \* history: number of times a destination file was opened for writing
    call,              \* history, per caller: the list of its current / last save and the store when it began
    last_done,         \* history: the save call that returned last
    \* ---- AuthManager and the adapters (ellis/auth.py, ellis/clients/base.py)
    results,           \* AuthManager._results: per source status, authenticated_at, error
    now,               \* time.time(), in whole seconds
    is_authenticated,  \* per adapter: ExchangeClient.is_authenticated
    auth_running,      \* per thread: inside authenticate_all with futures submitted
    auth_pending,      \* per thread: targets whose _auth_one future has not completed
    auth_op,           \* the AuthManager call of the main thread that returned last ("none" once anything else happened)
    ret_clients,       \* keys of the map the last authenticated_clients() returned
    auth_calls,        \* history, per thread: authenticate() calls per adapter in the current / last authenticate_all
    ever_success,      \* history, per source: the stored status has been SUCCESS at some point
    auth_stale,        \* history, per thread: the adapters that were stale, or forced, when that call began
    \* ---- EventBus (ellis/pubsub.py)
    bus_async,         \* EventBus._async
    bus_lock,          \* EventBus._lock is held
    bus_now,           \* time.time() as the Event constructor reads it
    built,             \* the Event objects callers have built themselves, in order of construction
    subs,              \* EventBus._subs: the ids of the subscriptions in the list, in list order
    created,           \* the Subscription objects created so far, by id: pattern and handler
    unsubscribed,      \* history: ids of the subscriptions for which an unsubscribe call has returned
    enqueued,          \* history: the (sub, event) pairs put on the queue, in the order of the puts
    queue,             \* EventBus._queue: (sub, event) pairs waiting for the delivery thread
    pub_stack,         \* per publisher thread: the publish calls in progress, innermost last
    published,         \* history: per event the Event object built by publish, the pre-built Event given (0: none), its topic, its publisher thread, the event whose handler published it (0: none), the number of subscriptions created and the ids unsubscribed before its snapshot, the ids in the subscription list at its snapshot, how publish ended, whether a handler raised
    deliveries,        \* history: the handler invocations (subscription, event) in the order they began
    \* ---- OddsFeed and FeedManager (ellis/feed.py)
    feed_pc,           \* per source: position of the worker thread in _loop / _poll ("none": no live thread)
    stop_event,        \* per source: OddsFeed._stop_event
    first_run,         \* per source: the local first_run of _loop
    ctl,               \* the controlling thread: "idle", or inside stop() of a source, joining
    feed_epoch,        \* history, per source: worker threads created so far
    workers,           \* per source: the worker threads that are alive, by number of creation
    start_refused,     \* history, per source: a start() call found the worker alive and returned
    feed_cycle,        \* history, per source: poll cycles begun so far
    cycle_out,         \* history, per source and cycle: how its _poll ended
    feedlog,           \* history, per source: the events the feed published, in order
    \* ---- Subscription.matches on its own (ellis/pubsub.py)
    m_topic,           \* the topic passed to matches
    m_pattern,         \* Subscription.pattern
    m_result,          \* what matches returned ("none": not called yet)
    \* ---- OddsListener (ellis/comparator.py)
    min_exchanges,     \* OddsListener._min_exchanges
    snapshots,         \* OddsListener._snapshots: per exchange the odds event whose markets are stored (NoSnapshot: no key)
    l_pc,              \* per publishing thread: position in _handle_odds_event ("idle": not in the handler)
    l_event,           \* per publishing thread: the event its handler invocation was given
    l_copy,            \* per publishing thread: the local snapshot_copy
    l_count,           \* history, per publishing thread: exchanges with a stored snapshot right after its store
    odds_seq,          \* history, per exchange: odds events published so far
    handled,           \* history: the handler invocations that returned, in order, and whether each ran a comparison
    comparison_count   \* OddsListener._comparison_count

schedVars == <<sched_pc, stop, batch_count, sleep_i, batches_failed,
               begun_after_stop, stop_set_at,
                   slept_after_stop>>

storeVars == <<files, lock, save_pc, groups, existing, total_written, save_ret,
               timed_out, offered, accepted, dropped, files0, saves_begun,
               writes, call, last_done>>

authVars == <<results, now, is_authenticated, ever_success, auth_running, auth_pending, auth_op,
              ret_clients, auth_calls, auth_stale>>

busVars == <<bus_async, bus_lock, bus_now, built, subs, created, unsubscribed, queue, enqueued, pub_stack,
            published, deliveries>>

feedVars == <<feed_pc, stop_event, first_run, ctl, feed_epoch, workers, start_refused,
              feed_cycle,
              cycle_out, feedlog>>

matchVars == <<m_topic, m_pattern, m_result>>

listenVars == <<min_exchanges, snapshots, l_pc, l_event, l_copy, l_count, odds_seq, handled,
                comparison_count>>

vars == <<schedVars, storeVars, authVars, busVars, feedVars, matchVars, listenVars>>

(***************************************************************************)
(* Scheduler                                                               *)
(***************************************************************************)

\* Seconds of the inter-batch sleep (batch_interval_secs), scaled down.
Interval == 2
\* Cap on the number of batches one run of the model starts.
MaxBatches == 3

SchedInit ==
    /\ sched_pc = "init"
    /\ stop = FALSE
    /\ batch_count = 0
    /\ sleep_i = 0
    /\ batches_failed = 0
    /\ begun_after_stop = 0
    /\ stop_set_at = "none"
    /\ slept_after_stop = 0

\* run_forever up to the first evaluation of the while condition:
\* the signal handlers are registered.
RunForever ==
    /\ sched_pc = "init"
    /\ sched_pc' = "loop"
    /\ UNCHANGED <<stop, batch_count, sleep_i, batches_failed,
                   begun_after_stop, stop_set_at,
                   slept_after_stop>>

\* `while True:` instead of `while not self._stop:`.
LoopCheck_IgnoresStop ==
    /\ sched_pc = "loop"
    /\ sched_pc' = "run_once"
    /\ UNCHANGED <<stop, batch_count, sleep_i, batches_failed,
                   begun_after_stop, stop_set_at,
                   slept_after_stop>>

\* `while not self._stop:` the loop-head test.
LoopCheck ==
    /\ sched_pc = "loop"
    /\ sched_pc' = IF stop THEN "stopped" ELSE "run_once"
    /\ UNCHANGED <<stop, batch_count, sleep_i, batches_failed,
                   begun_after_stop, stop_set_at,
                   slept_after_stop>>

\* self.run_once() is entered and self._client.run() begins.
RunOnceBegin ==
    /\ sched_pc = "run_once"
    /\ batch_count + batches_failed < MaxBatches
    /\ sched_pc' = "batch"
    /\ begun_after_stop' = IF stop THEN begun_after_stop + 1 ELSE begun_after_stop
    /\ UNCHANGED <<stop, batch_count, sleep_i, batches_failed, stop_set_at,
                   slept_after_stop>>

\* self._client.run() returns the stats; run_once counts the batch and returns.
BatchReturn ==
    /\ sched_pc = "batch"
    /\ batch_count' = batch_count + 1
    /\ sched_pc' = "after"
    /\ UNCHANGED <<stop, sleep_i, batches_failed, begun_after_stop, stop_set_at,
                   slept_after_stop>>

\* self._client.run() raises: neither run_once nor run_forever has a handler,
\* so the exception leaves run_forever.
BatchRaise ==
    /\ sched_pc = "batch"
    /\ batches_failed' = batches_failed + 1
    /\ sched_pc' = "crashed"
    /\ UNCHANGED <<stop, batch_count, sleep_i, begun_after_stop, stop_set_at,
                   slept_after_stop>>

\* `if self._stop: break` after the batch; otherwise the sleep loop starts.
AfterBatchCheck ==
    /\ sched_pc = "after"
    /\ IF stop
         THEN sched_pc' = "stopped" /\ UNCHANGED sleep_i
         ELSE sched_pc' = "sleep" /\ sleep_i' = 0
    /\ UNCHANGED <<stop, batch_count, batches_failed, begun_after_stop, stop_set_at,
                   slept_after_stop>>

\* The sleep loop without its `if self._stop: break`.
SleepCheck_IgnoresStop ==
    /\ sched_pc = "sleep"
    /\ sched_pc' = IF sleep_i >= Interval THEN "loop" ELSE "sleeping"
    /\ UNCHANGED <<stop, batch_count, sleep_i, batches_failed,
                   begun_after_stop, stop_set_at, slept_after_stop>>

\* One iteration head of `for _ in range(self._interval)`: the range is
\* exhausted, or _stop breaks out of it, or time.sleep(1) starts.
SleepCheck ==
    /\ sched_pc = "sleep"
    /\ sched_pc' = IF sleep_i >= Interval \/ stop THEN "loop" ELSE "sleeping"
    /\ UNCHANGED <<stop, batch_count, sleep_i, batches_failed,
                   begun_after_stop, stop_set_at,
                   slept_after_stop>>

\* time.sleep(1) returns.
SleepDone ==
    /\ sched_pc = "sleeping"
    /\ sleep_i' = sleep_i + 1
    /\ sched_pc' = "sleep"
    /\ slept_after_stop' = IF stop THEN slept_after_stop + 1 ELSE slept_after_stop
    /\ UNCHANGED <<stop, batch_count, batches_failed, begun_after_stop, stop_set_at>>

\* _handle_shutdown: SIGINT / SIGTERM delivered between two steps of the
\* main thread, at any point after the handlers were registered.
HandleShutdown ==
    /\ sched_pc \notin {"init", "stopped", "crashed"}
    /\ stop' = TRUE
    /\ stop_set_at' = IF stop THEN stop_set_at ELSE sched_pc
    /\ UNCHANGED <<sched_pc, batch_count, sleep_i, batches_failed,
                   begun_after_stop, slept_after_stop>>



(***************************************************************************)
(* ClassifiedStorage                                                       *)
(***************************************************************************)

\* Threads / processes calling save on the same data directory.
Callers == {"c1", "c2"}
\* Destination files ({data_dir}/classifieds/<mfr>/<model>/<date>/listings.json).
Dests == {"d1", "d2"}
\* Listings a caller can pass: identity key `id` and resolved destination.
Listings ==
    { [id |-> "A", dest |-> "d1"], [id |-> "B", dest |-> "d1"],
      [id |-> "A", dest |-> "d2"] }
\* Longest list passed to one save call.
MaxLen == 2
\* Number of save calls in one run of the model.
MaxSaves == 2

SeqsUpTo(S, n) == UNION { [1..k -> S] : k \in 0..n }

Range(q) == { q[i] : i \in DOMAIN q }

\* The filter of _merge_and_write losing the last listing that passes it.
SelectIds_LosesLast(q, drop) ==
    LET kept == SelectSeq(q, LAMBDA x : x \notin drop)
    IN  IF kept = <<>> THEN kept ELSE SubSeq(kept, 1, Len(kept) - 1)

RECURSIVE SelectIds(_, _)
\* [x for x in q if x not in drop], order kept.
SelectIds(q, drop) ==
    IF q = <<>> THEN <<>>
    ELSE IF Head(q) \in drop THEN SelectIds(Tail(q), drop)
         ELSE <<Head(q)>> \o SelectIds(Tail(q), drop)

RECURSIVE IdsFor(_, _)
\* The ids of the listings of `ls` whose path is d, in list order.
IdsFor(ls, d) ==
    IF ls = <<>> THEN <<>>
    ELSE IF Head(ls).dest = d THEN <<Head(ls).id>> \o IdsFor(Tail(ls), d)
         ELSE IdsFor(Tail(ls), d)

RECURSIVE PathOrder(_, _)
\* The keys of the dict `groups` in insertion order: paths by first occurrence.
PathOrder(ls, seen) ==
    IF ls = <<>> THEN <<>>
    ELSE IF Head(ls).dest \in seen THEN PathOrder(Tail(ls), seen)
         ELSE <<Head(ls).dest>> \o PathOrder(Tail(ls), seen \cup {Head(ls).dest})

\* save, lines 38-41: groups.setdefault(path, []).append(listing).
GroupByPath(ls) ==
    LET order == PathOrder(ls, {})
    IN  [i \in DOMAIN order |-> [dest |-> order[i], ids |-> IdsFor(ls, order[i])]]

NoFile == [state |-> "absent", content |-> <<>>]

\* The data directory before the first save: nothing stored, one stored
\* record, or a destination file that does not parse as JSON.
InitialFiles ==
    { [d \in Dests |-> NoFile],
      [d \in Dests |-> IF d = "d1" THEN [state |-> "ok", content |-> <<"A">>] ELSE NoFile],
      [d \in Dests |-> IF d = "d1" THEN [state |-> "corrupt", content |-> <<>>] ELSE NoFile] }

\* Every listing of ls has an id the destination file of fs does not hold.
Fresh(ls, fs) ==
    \A i \in DOMAIN ls :
        ls[i].id \notin Range(IF fs[ls[i].dest].state = "ok"
                                THEN fs[ls[i].dest].content ELSE <<>>)

\* What is kept of the save call before the current one.
Summary(ls, ret, seq, fresh) == [ls |-> ls, ret |-> ret, seq |-> seq, fresh |-> fresh]

NoSummary == Summary(<<>>, -1, FALSE, FALSE)

NoCall == [ls |-> <<>>, prev |-> NoSummary, alone |-> FALSE, begun |-> 0,
           writes0 |-> 0, files_before |-> [d \in Dests |-> NoFile]]

NoDone == [ls |-> <<>>, ret |-> -1, seq |-> FALSE, prev |-> NoSummary, wrote |-> 0,
           before |-> [d \in Dests |-> NoFile], after |-> [d \in Dests |-> NoFile]]

\* The save call of caller k, begun as recorded in cl and returning ret with
\* the files and the write count as given: whether no other save call
\* overlapped it, how many writes it made, and the files before and after.
Done(k, cl, ret, filesAfter, writesAfter) ==
    [ls |-> cl.ls, ret |-> ret,
     seq |-> cl.alone /\ cl.begun = saves_begun
                /\ \A o \in Callers \ {k} : save_pc[o] = "idle",
     prev |-> cl.prev,
     wrote |-> writesAfter - cl.writes0,
     before |-> cl.files_before,
     after |-> filesAfter]

StoreInit ==
    /\ files \in InitialFiles
    /\ files0 = files
    /\ lock = [d \in Dests |-> "none"]
    /\ save_pc = [c \in Callers |-> "idle"]
    /\ groups = [c \in Callers |-> <<>>]
    /\ existing = [c \in Callers |-> <<>>]
    /\ total_written = [c \in Callers |-> 0]
    /\ save_ret = [c \in Callers |-> -1]
    /\ offered = [d \in Dests |-> {}]
    /\ accepted = [d \in Dests |-> {}]
    /\ dropped = [d \in Dests |-> {}]
    /\ timed_out = [c \in Callers |-> 0]
    /\ saves_begun = 0
    /\ writes = 0
    /\ call = [c \in Callers |-> NoCall]
    /\ last_done = NoDone

\* The loop `for path, group in groups.items()` after a bucket is finished
\* with `written` new records: the next bucket's lock is requested, or save
\* returns total_written.
NextBucket(c, written) ==
    /\ offered' = [offered EXCEPT ![Head(groups[c]).dest] = @ \cup Range(Head(groups[c]).ids)]
    /\ groups' = [groups EXCEPT ![c] = Tail(@)]
    /\ existing' = [existing EXCEPT ![c] = <<>>]
    /\ IF Len(groups[c]) > 1
         THEN /\ save_pc' = [save_pc EXCEPT ![c] = "locking"]
              /\ total_written' = [total_written EXCEPT ![c] = @ + written]
              /\ UNCHANGED <<save_ret, last_done>>
         ELSE /\ save_pc' = [save_pc EXCEPT ![c] = "idle"]
              /\ total_written' = [total_written EXCEPT ![c] = 0]
              /\ save_ret' = [save_ret EXCEPT ![c] = total_written[c] + written]
              /\ last_done' = Done(c, call[c], total_written[c] + written, files', writes')
    /\ UNCHANGED call

\* save(listings): an empty list returns 0; otherwise the listings are
\* bucketed by path and the first bucket's lock is requested.
Save(c, ls) ==
    /\ save_pc[c] = "idle"
    /\ saves_begun < MaxSaves
    /\ saves_begun' = saves_begun + 1
    /\ timed_out' = [timed_out EXCEPT ![c] = 0]
    /\ total_written' = [total_written EXCEPT ![c] = 0]
    /\ existing' = [existing EXCEPT ![c] = <<>>]
    /\ LET cl == [ls |-> ls,
                  prev |-> Summary(last_done.ls, last_done.ret, last_done.seq,
                                   Fresh(last_done.ls, last_done.before)),
                  alone |-> \A o \in Callers \ {c} : save_pc[o] = "idle",
                  begun |-> saves_begun + 1, writes0 |-> writes,
                  files_before |-> files]
       IN  /\ call' = [call EXCEPT ![c] = cl]
           /\ IF ls = <<>>
                THEN /\ save_ret' = [save_ret EXCEPT ![c] = 0]
                     /\ last_done' = [Done(c, cl, 0, files, writes) EXCEPT !.seq = cl.alone]
                     /\ UNCHANGED <<save_pc, groups>>
                ELSE /\ groups' = [groups EXCEPT ![c] = GroupByPath(ls)]
                     /\ save_pc' = [save_pc EXCEPT ![c] = "locking"]
                     /\ UNCHANGED <<save_ret, last_done>>
    /\ UNCHANGED <<files, lock, files0, offered, accepted, dropped, writes>>

\* _merge_and_write taking the destination for empty whatever it holds.
ReadExisting_AlwaysEmpty(d) == <<>>

\* _merge_and_write, lines 68-75: the existing array as read from the
\* file; a file that is absent, or whose reading ends in JSONDecodeError or
\* OSError, reads as [].
ReadExisting(d) ==
    IF files[d].state = "ok" THEN files[d].content ELSE <<>>

\* _merge_and_write, lines 70-75: json.load on a file opened with
\* encoding="utf-8" raises UnicodeDecodeError when the bytes are not UTF-8;
\* it is a ValueError but neither a JSONDecodeError nor an OSError, so the
\* handler of line 73 does not catch it.
ReadRaises(d) == files[d].state = "undecodable"

\* A lock that excludes nobody.
AcquireLock_NoExclusion(c) ==
    /\ save_pc[c] = "locking"
    /\ lock' = [lock EXCEPT ![Head(groups[c]).dest] = c]
    /\ existing' = [existing EXCEPT ![c] = ReadExisting(Head(groups[c]).dest)]
    /\ save_pc' = [save_pc EXCEPT ![c] = "merge"]
    /\ UNCHANGED <<files, groups, total_written, save_ret,
                   timed_out, offered, accepted, dropped, files0, saves_begun,
                   writes, call, last_done>>

\* _write_group: `with filelock.FileLock(lock_path, timeout=_LOCK_TIMEOUT)`
\* is entered once no other holder has the destination's lock, and
\* _merge_and_write reads the existing array (lines 66-75). When the read
\* raises, the exception leaves the with block, which releases the lock,
\* and `except Exception` of _write_group (lines 61-63) returns 0 for the
\* bucket.
AcquireLock(c) ==
    /\ save_pc[c] = "locking"
    /\ lock[Head(groups[c]).dest] = "none"
    /\ IF ReadRaises(Head(groups[c]).dest)
         THEN /\ accepted' = [accepted EXCEPT ![Head(groups[c]).dest] =
                                 @ \cup Range(Head(groups[c]).ids)]
              /\ UNCHANGED <<files, lock, writes>>
              /\ NextBucket(c, 0)
              /\ UNCHANGED <<timed_out, dropped, files0, saves_begun>>
         ELSE /\ lock' = [lock EXCEPT ![Head(groups[c]).dest] = c]
              /\ existing' = [existing EXCEPT ![c] = ReadExisting(Head(groups[c]).dest)]
              /\ save_pc' = [save_pc EXCEPT ![c] = "merge"]
              /\ UNCHANGED <<files, groups, total_written, save_ret,
                             timed_out, offered, accepted, dropped, files0, saves_begun,
                             writes, call, last_done>>

\* _write_group without `except filelock.Timeout`: the timeout ends save
\* with the exception, and the buckets left are not processed.
LockTimeout_Raises(c) ==
    /\ save_pc[c] = "locking"
    /\ lock[Head(groups[c]).dest] \notin {"none", c}
    /\ timed_out' = [timed_out EXCEPT ![c] = @ + 1]
    /\ dropped' = [dropped EXCEPT ![Head(groups[c]).dest] = @ \cup Range(Head(groups[c]).ids)]
    /\ offered' = [offered EXCEPT ![Head(groups[c]).dest] = @ \cup Range(Head(groups[c]).ids)]
    /\ groups' = [groups EXCEPT ![c] = <<>>]
    /\ existing' = [existing EXCEPT ![c] = <<>>]
    /\ save_pc' = [save_pc EXCEPT ![c] = "idle"]
    /\ total_written' = [total_written EXCEPT ![c] = 0]
    /\ save_ret' = [save_ret EXCEPT ![c] = -1]
    /\ UNCHANGED <<files, lock, accepted, files0, saves_begun, writes, call, last_done>>

\* _write_group: the lock stays held by another caller for _LOCK_TIMEOUT
\* seconds; filelock.Timeout is caught, the bucket is skipped with 0 written.
LockTimeout(c) ==
    /\ save_pc[c] = "locking"
    /\ lock[Head(groups[c]).dest] \notin {"none", c}
    /\ timed_out' = [timed_out EXCEPT ![c] = @ + 1]
    /\ dropped' = [dropped EXCEPT ![Head(groups[c]).dest] = @ \cup Range(Head(groups[c]).ids)]
    /\ UNCHANGED <<files, lock, accepted, files0, saves_begun, writes>>
    /\ NextBucket(c, 0)

\* _merge_and_write without `if not new_dicts: return 0`: the file is
\* rewritten also when nothing is new.
MergeAndWrite_AlwaysWrites(c) ==
    /\ save_pc[c] = "merge"
    /\ LET g == Head(groups[c])
           existing_ids == Range(existing[c])
           new_dicts == SelectIds(g.ids, existing_ids)
       IN  /\ files' = [files EXCEPT ![g.dest] =
                           [state |-> "ok", content |-> existing[c] \o new_dicts]]
           /\ writes' = writes + 1
           /\ lock' = [lock EXCEPT ![g.dest] = IF @ = c THEN "none" ELSE @]
           /\ accepted' = [accepted EXCEPT ![g.dest] = @ \cup Range(g.ids)]
           /\ NextBucket(c, Len(new_dicts))
    /\ UNCHANGED <<timed_out, dropped, files0, saves_begun>>

\* _merge_and_write, lines 77-89, and the exit of the `with` block: the
\* listings whose id is not among the ids read are appended and the file is
\* rewritten; with nothing new the file is not touched. The lock is released.
MergeAndWrite(c) ==
    /\ save_pc[c] = "merge"
    /\ LET g == Head(groups[c])
           existing_ids == Range(existing[c])
           new_dicts == SelectIds(g.ids, existing_ids)
       IN  /\ IF new_dicts = <<>>
                THEN UNCHANGED <<files, writes>>
                ELSE /\ files' = [files EXCEPT ![g.dest] =
                                     [state |-> "ok", content |-> existing[c] \o new_dicts]]
                     /\ writes' = writes + 1
           /\ lock' = [lock EXCEPT ![g.dest] = IF @ = c THEN "none" ELSE @]
           /\ accepted' = [accepted EXCEPT ![g.dest] = @ \cup Range(g.ids)]
           /\ NextBucket(c, Len(new_dicts))
    /\ UNCHANGED <<timed_out, dropped, files0, saves_begun>>



(***************************************************************************)
(* AuthManager                                                             *)
(***************************************************************************)

\* The configured exchanges (keys of AuthManager._clients).
Sources == {"s1", "s2"}
\* Threads that call into the AuthManager: the main thread and one feed
\* worker per source.
AuthThreads == {"main"} \cup Sources
\* token_ttl in seconds, scaled down.
TokenTtl == 2
\* Last instant the clock reaches.
MaxTime == 4
\* authenticated_at / error of an AuthResult that has none.
None == -1

AuthResult(status, at, error) ==
    [status |-> status, authenticated_at |-> at, error |-> error]

\* A session counts as stale for the claims: not SUCCESS, or SUCCESS of age
\* at least token_ttl.
StaleAt(r, t) ==
    \/ r.status \in {"PENDING", "FAILED", "EXPIRED"}
    \/ r.status = "SUCCESS" /\ t - r.authenticated_at >= TokenTtl

AuthInit ==
    /\ results = [n \in Sources |-> AuthResult("PENDING", None, "none")]
    /\ now = 0
    /\ is_authenticated = [n \in Sources |-> FALSE]
    /\ ever_success = [n \in Sources |-> FALSE]
    /\ auth_running = [t \in AuthThreads |-> FALSE]
    /\ auth_pending = [t \in AuthThreads |-> {}]
    /\ auth_op = "none"
    /\ ret_clients = {}
    /\ auth_calls = [t \in AuthThreads |-> [n \in Sources |-> 0]]
    /\ auth_stale = [t \in AuthThreads |-> {}]

\* The expiry test with `>` for `>=`.
IsExpired_Strict(r) ==
    IF r.authenticated_at = None THEN FALSE
    ELSE (now - r.authenticated_at) > TokenTtl

\* _is_expired(result).
IsExpired(r) ==
    IF r.authenticated_at = None THEN FALSE
    ELSE (now - r.authenticated_at) >= TokenTtl

\* A SUCCESS session is never re-authenticated, whatever its age.
NeedsAuth_IgnoresAge(n) ==
    results[n].status \in {"PENDING", "FAILED", "EXPIRED"}

\* _needs_auth(name).
NeedsAuth(n) ==
    IF results[n].status = "PENDING" THEN TRUE
    ELSE IF results[n].status \in {"FAILED", "EXPIRED"} THEN TRUE
    ELSE IF results[n].status = "SUCCESS" /\ IsExpired(results[n]) THEN TRUE
    ELSE FALSE

\* _mark_expired() building the EXPIRED result without authenticated_at.
MarkExpired_DropsTimestamp ==
    [n \in Sources |->
        IF results[n].status = "SUCCESS" /\ IsExpired(results[n])
          THEN AuthResult("EXPIRED", None, "none")
          ELSE results[n]]

\* _mark_expired(): the results map after the sweep.
MarkExpired ==
    [n \in Sources |->
        IF results[n].status = "SUCCESS" /\ IsExpired(results[n])
          THEN AuthResult("EXPIRED", results[n].authenticated_at, "none")
          ELSE results[n]]

\* authenticate_all(force), lines 108-124, called by thread t: the targets
\* are selected; with none the call returns at once, otherwise one _auth_one
\* future per target is submitted to the pool.
AuthenticateAll(t, force) ==
    /\ ~auth_running[t]
    /\ LET targets == { n \in Sources : force \/ NeedsAuth(n) }
       IN  /\ auth_pending' = [auth_pending EXCEPT ![t] = targets]
           /\ auth_running' = [auth_running EXCEPT ![t] = targets # {}]
           /\ auth_op' = IF targets = {} /\ t = "main" THEN "authenticate_all" ELSE "none"
    /\ auth_calls' = [auth_calls EXCEPT ![t] = [n \in Sources |-> 0]]
    /\ auth_stale' = [auth_stale EXCEPT ![t] =
                         { n \in Sources : force \/ StaleAt(results[n], now) }]
    /\ UNCHANGED <<results, now, is_authenticated, ever_success, ret_clients>>

\* _auth_one without its try/except: an authenticate() that raises ends
\* authenticate_all with the exception at future.result(), and no result is
\* stored for it.
AuthOne_Propagates(t, n, outcome) ==
    /\ auth_running[t]
    /\ n \in auth_pending[t]
    /\ IF outcome = "raise"
         THEN /\ auth_running' = [auth_running EXCEPT ![t] = FALSE]
              /\ auth_pending' = [auth_pending EXCEPT ![t] = {}]
              /\ UNCHANGED <<results, is_authenticated, ever_success>>
         ELSE /\ results' = [results EXCEPT ![n] =
                    IF outcome = "ok"
                      THEN AuthResult("SUCCESS", now, "none")
                      ELSE AuthResult("FAILED", None, "authenticate() returned False")]
              /\ is_authenticated' = [is_authenticated EXCEPT ![n] =
                                         IF outcome = "ok" THEN TRUE ELSE @]
              /\ ever_success' = [ever_success EXCEPT ![n] = @ \/ outcome = "ok"]
              /\ auth_pending' = [auth_pending EXCEPT ![t] = @ \ {n}]
              /\ UNCHANGED auth_running
    /\ auth_calls' = [auth_calls EXCEPT ![t][n] = @ + 1]
    /\ auth_op' = "none"
    /\ UNCHANGED <<now, ret_clients, auth_stale>>

\* _auth_one(name, client) completes in the pool and the as_completed loop
\* of thread t stores its result (lines 125-129). client.authenticate()
\* returns True ("ok"), returns False ("false") or raises ("raise"); on True
\* the adapter holds a session (clients/base.py:20-25).
AuthOne(t, n, outcome) ==
    /\ auth_running[t]
    /\ n \in auth_pending[t]
    /\ results' = [results EXCEPT ![n] =
          CASE outcome = "ok"    -> AuthResult("SUCCESS", now, "none")
            [] outcome = "false" -> AuthResult("FAILED", None, "authenticate() returned False")
            [] outcome = "raise" -> AuthResult("FAILED", None, "exception")]
    /\ is_authenticated' = [is_authenticated EXCEPT ![n] = IF outcome = "ok" THEN TRUE ELSE @]
    /\ ever_success' = [ever_success EXCEPT ![n] = @ \/ outcome = "ok"]
    /\ auth_pending' = [auth_pending EXCEPT ![t] = @ \ {n}]
    /\ auth_calls' = [auth_calls EXCEPT ![t][n] = @ + 1]
    /\ auth_op' = "none"
    /\ UNCHANGED <<now, auth_running, ret_clients, auth_stale>>

\* authenticate_all returning without joining the pool: the attempts still
\* pending are abandoned.
AuthenticateAllReturn_NoJoin(t) ==
    /\ auth_running[t]
    /\ auth_running' = [auth_running EXCEPT ![t] = FALSE]
    /\ auth_pending' = [auth_pending EXCEPT ![t] = {}]
    /\ auth_op' = IF t = "main" THEN "authenticate_all" ELSE "none"
    /\ UNCHANGED <<results, now, is_authenticated, ever_success, ret_clients,
                   auth_calls, auth_stale>>

\* authenticate_all, lines 120-131: the pool's `with` block ends once every
\* future has completed, and the results map is returned.
AuthenticateAllReturn(t) ==
    /\ auth_running[t]
    /\ auth_pending[t] = {}
    /\ auth_running' = [auth_running EXCEPT ![t] = FALSE]
    /\ auth_op' = IF t = "main" THEN "authenticate_all" ELSE "none"
    /\ UNCHANGED <<results, now, is_authenticated, ever_success, auth_pending, ret_clients,
                   auth_calls, auth_stale>>

\* refresh_expired() that looks at the age of a session only: a FAILED or
\* PENDING source is not counted as stale.
RefreshExpired_OnlyByAge(t) ==
    /\ ~auth_running[t]
    /\ LET stale == { n \in Sources : results[n].status = "EXPIRED" \/ IsExpired(results[n]) }
       IN  IF stale = {}
             THEN /\ auth_op' = IF t = "main" THEN "refresh_expired" ELSE "none"
                  /\ UNCHANGED <<results, now, is_authenticated, ever_success, auth_running,
                                 auth_pending, ret_clients, auth_calls, auth_stale>>
             ELSE AuthenticateAll(t, FALSE)

\* refresh_expired(): with no stale session the map is returned, otherwise
\* authenticate_all(force=False) is called.
RefreshExpired(t) ==
    /\ ~auth_running[t]
    /\ LET stale == { n \in Sources :
                        \/ results[n].status \in {"EXPIRED", "FAILED", "PENDING"}
                        \/ IsExpired(results[n]) }
       IN  IF stale = {}
             THEN /\ auth_op' = IF t = "main" THEN "refresh_expired" ELSE "none"
                  /\ UNCHANGED <<results, now, is_authenticated, ever_success, auth_running,
                                 auth_pending, ret_clients, auth_calls, auth_stale>>
             ELSE AuthenticateAll(t, FALSE)

\* authenticated_clients(): the sweep, then the clients with status SUCCESS.
AuthenticatedClients ==
    /\ ~auth_running["main"]
    /\ results' = MarkExpired
    /\ ret_clients' = { n \in Sources : MarkExpired[n].status = "SUCCESS" }
    /\ auth_op' = "authenticated_clients"
    /\ UNCHANGED <<now, is_authenticated, ever_success, auth_running, auth_pending,
                   auth_calls, auth_stale>>

\* status() (and print_status()): the sweep, then a copy of the map.
Status ==
    /\ ~auth_running["main"]
    /\ results' = MarkExpired
    /\ auth_op' = "status"
    /\ UNCHANGED <<now, is_authenticated, ever_success, auth_running, auth_pending, ret_clients,
                   auth_calls, auth_stale>>

\* One second passes.
Tick ==
    /\ now < MaxTime
    /\ now' = now + 1
    /\ auth_op' = "none"
    /\ UNCHANGED <<results, is_authenticated, ever_success, auth_running, auth_pending,
                   ret_clients, auth_calls, auth_stale>>

\* ExchangeClient.reauthenticate() (clients/base.py:27-32), called on the
\* adapter directly: the session state is cleared and authenticate() is run;
\* the adapter holds a session afterwards iff that call succeeded. The
\* AuthManager is not involved and its result for the source stays.
Reauthenticate(n, outcome) ==
    /\ \A t \in AuthThreads : n \notin auth_pending[t]
    /\ is_authenticated' = [is_authenticated EXCEPT ![n] = (outcome = "ok")]
    /\ auth_op' = "none"
    /\ UNCHANGED <<results, now, ever_success, auth_running, auth_pending,
                   ret_clients, auth_calls, auth_stale>>


(***************************************************************************)
(* EventBus                                                                *)
(***************************************************************************)

\* Topics and patterns are strings, modelled as sequences of characters.
T_ab == <<"a", ".", "b">>
T_ac == <<"a", ".", "c">>
P_aStar == <<"a", ".", "*">>
P_ab == <<"a", ".", "b">>

Topics == {T_ab, T_ac}
Patterns == {P_aStar, P_ab}
\* What subscribe is called with: handler h1 on `a.*`, handler h2 on `a.b`.
SubChoices == { [pattern |-> P_aStar, handler |-> "h1"],
                [pattern |-> P_ab, handler |-> "h2"] }
\* Threads that call publish: p1, and p2 whose publish calls start while one
\* of p1 is in progress (two publishers that never overlap act as one). p2
\* publishes with async dispatch only: publish calls of different threads
\* share the queue there, and with synchronous dispatch nothing but the
\* subscription list that each reads once under the lock.
Publishers == {"p1", "p2"}
\* Subscriptions created in one run of the model with async dispatch.
MaxSubs == 2
\* Events published in one run of the model.
MaxEvents == 2
\* Depth of publish calls nested through handlers.
MaxDepth == 2
\* Event objects callers build themselves in one run of the model.
MaxBuilt == 1
\* Last reading of the clock in one run of the model.
MaxBusTime == 2
\* The `exchange` and `data` arguments of Event objects callers build.
Exchanges == {"x1", "x2"}
Payloads == {"m1", "m2"}
\* The `exchange` and `data` arguments of direct publish calls.
DirectExchange == "x1"
DirectData == "m1"

\* The Event dataclass.
Event(topic, exchange, data, timestamp) ==
    [topic |-> topic, exchange |-> exchange, data |-> data, timestamp |-> timestamp]

RECURSIVE Matches(_, _)
\* Subscription.matches: fnmatch.fnmatch(topic, pattern) for patterns of
\* literals, `*` (any run of characters, possibly empty) and `?` (exactly
\* one character), matched against the whole topic.
Matches(topic, pattern) ==
    IF pattern = <<>> THEN topic = <<>>
    ELSE IF Head(pattern) = "*"
           THEN \/ Matches(topic, Tail(pattern))
                \/ topic # <<>> /\ Matches(Tail(topic), pattern)
    ELSE IF Head(pattern) = "?"
           THEN topic # <<>> /\ Matches(Tail(topic), Tail(pattern))
    ELSE topic # <<>> /\ Head(topic) = Head(pattern)
                      /\ Matches(Tail(topic), Tail(pattern))

\* Longest topic and longest pattern passed to matches on its own.
MaxTopicLen == 3
MaxPatternLen == 3
\* The characters of topics, and of patterns: the same and the wildcards.
TopicChars == {"a", "b", "."}
PatternChars == TopicChars \cup {"*", "?"}

\* A call sub.matches(topic) with sub.pattern = m_pattern.
CallMatches ==
    /\ m_result = "none"
    /\ m_result' = IF Matches(m_topic, m_pattern) THEN "True" ELSE "False"
    /\ UNCHANGED <<m_topic, m_pattern>>

RECURSIVE SelectSubs(_, _)
\* [s for s in q if s.matches(topic)], q a list of subscription ids.
SelectSubs(q, topic) ==
    IF q = <<>> THEN <<>>
    ELSE IF Matches(topic, created[Head(q)].pattern)
           THEN <<Head(q)>> \o SelectSubs(Tail(q), topic)
           ELSE SelectSubs(Tail(q), topic)

\* The snapshot without the filter: every subscription is taken.
MatchedSubs_NoFilter(topic) == subs

\* The matching snapshot in reverse: the newest subscription first.
MatchedSubs_NewestFirst(topic) ==
    LET m == SelectSubs(subs, topic)
    IN  [i \in 1..Len(m) |-> m[Len(m) + 1 - i]]

\* publish, lines 119-120: the matching snapshot taken under the lock.
MatchedSubs(topic) == SelectSubs(subs, topic)

\* Subscriptions created in one run of the model: one more with synchronous
\* dispatch, where the order of registration decides the order of the
\* invocations.
SubsBound == IF bus_async THEN MaxSubs ELSE MaxSubs + 1

BusInit ==
    /\ bus_async \in BOOLEAN
    /\ bus_lock = FALSE
    /\ bus_now = 0
    /\ built = <<>>
    /\ subs = <<>>
    /\ created = <<>>
    /\ queue = <<>>
    /\ enqueued = <<>>
    /\ unsubscribed = {}
    /\ pub_stack = [t \in Publishers |-> <<>>]
    /\ published = <<>>
    /\ deliveries = <<>>

Top(t) == pub_stack[t][Len(pub_stack[t])]

SetTop(t, frame) == [pub_stack EXCEPT ![t] = [@ EXCEPT ![Len(@)] = frame]]

Pop(t) == [pub_stack EXCEPT ![t] = SubSeq(@, 1, Len(@) - 1)]

\* A handler is executing on thread t (synchronous dispatch).
InHandler(t) == pub_stack[t] # <<>> /\ Top(t).cur # 0

\* subscribe(pattern, handler): a Subscription with a fresh id is appended
\* under the lock, which is free again when the step ends.
Subscribe(pattern, handler) ==
    /\ Len(created) < SubsBound
    /\ ~bus_lock
    /\ created' = Append(created, [pattern |-> pattern, handler |-> handler])
    /\ subs' = Append(subs, Len(created) + 1)
    /\ UNCHANGED <<bus_async, bus_lock, bus_now, built, unsubscribed, enqueued, queue, pub_stack, published, deliveries>>

\* unsubscribe removing the oldest subscription when the one it is given is
\* not in the list.
SubsWithout_AbsentDropsHead(q, id) ==
    IF \E i \in 1..Len(q) : q[i] = id
      THEN SelectSeq(q, LAMBDA x : x # id)
      ELSE IF q = <<>> THEN q ELSE Tail(q)

\* unsubscribe, line 110: [s for s in self._subs if s.id != sub.id].
SubsWithout(q, id) == SelectSeq(q, LAMBDA x : x # id)

\* unsubscribe(sub) for a Subscription object returned earlier; the list is
\* rebuilt under the lock, which is free again when the step ends.
Unsubscribe(id) ==
    /\ id \in 1..Len(created)
    /\ ~bus_lock
    /\ subs' = SubsWithout(subs, id)
    /\ unsubscribed' = unsubscribed \cup {id}
    /\ UNCHANGED <<bus_async, bus_lock, bus_now, built, enqueued, created, queue, pub_stack, published, deliveries>>

\* publish keeping the lock while the handlers run: the loops of lines
\* 122-127 inside the `with self._lock:` block.
Publish_InvokesUnderLock(t, topic, exchange, data, given) ==
    /\ Len(published) < MaxEvents
    /\ ~bus_lock
    /\ \/ pub_stack[t] = <<>> /\ (t = "p2" => bus_async /\ pub_stack["p1"] # <<>>)
       \/ ~bus_async /\ InHandler(t) /\ Len(pub_stack[t]) < MaxDepth
    /\ bus_lock' = TRUE
    /\ published' = Append(published,
                       [topic |-> topic, by |-> t, subs_at |-> Range(subs),
                        event |-> Event(topic, exchange, data, bus_now),
                        given |-> given,
                        known |-> Len(created), gone |-> unsubscribed,
                        parent |-> IF pub_stack[t] = <<>> THEN 0 ELSE Top(t).ev,
                        ended |-> "running", raised |-> FALSE])
    /\ pub_stack' = [pub_stack EXCEPT ![t] =
                       Append(@, [ev |-> Len(published) + 1,
                                  matched |-> MatchedSubs(topic), cur |-> 0])]
    /\ UNCHANGED <<bus_async, bus_now, built, unsubscribed, enqueued, subs, created,
                   queue, deliveries>>

\* publish(topic, ...), lines 118-120, on thread t, from outside any handler
\* or (synchronous dispatch) from inside the handler running on t: the Event
\* is built and the matching snapshot is taken under the lock, which is
\* released before any handler is invoked or any pair is queued. `given`
\* is history only: the number of the pre-built Event when the call comes
\* from publish_event, 0 otherwise.
Publish(t, topic, exchange, data, given) ==
    /\ Len(published) < MaxEvents
    /\ ~bus_lock
    /\ \/ pub_stack[t] = <<>> /\ (t = "p2" => bus_async /\ pub_stack["p1"] # <<>>)
       \/ ~bus_async /\ InHandler(t) /\ Len(pub_stack[t]) < MaxDepth
    /\ published' = Append(published,
                       [topic |-> topic, by |-> t, subs_at |-> Range(subs),
                        event |-> Event(topic, exchange, data, bus_now),
                        given |-> given,
                        known |-> Len(created), gone |-> unsubscribed,
                        parent |-> IF pub_stack[t] = <<>> THEN 0 ELSE Top(t).ev,
                        ended |-> "running", raised |-> FALSE])
    /\ pub_stack' = [pub_stack EXCEPT ![t] =
                       Append(@, [ev |-> Len(published) + 1,
                                  matched |-> MatchedSubs(topic), cur |-> 0])]
    /\ UNCHANGED <<bus_async, bus_lock, bus_now, built, unsubscribed, enqueued, subs, created, queue, deliveries>>

\* time.time() advances between two steps.
BusTick ==
    /\ bus_now < MaxBusTime
    /\ bus_now' = bus_now + 1
    /\ UNCHANGED <<bus_async, bus_lock, built, subs, created, unsubscribed, enqueued,
                   queue, pub_stack, published, deliveries>>

\* A caller constructs Event(topic=..., exchange=..., data=...): timestamp
\* is filled by its default_factory, time.time.
BuildEvent(topic, exchange, data) ==
    /\ Len(built) < MaxBuilt
    /\ built' = Append(built, Event(topic, exchange, data, bus_now))
    /\ UNCHANGED <<bus_async, bus_lock, bus_now, subs, created, unsubscribed, enqueued,
                   queue, pub_stack, published, deliveries>>

\* publish_event passing exchange and data in each other's place.
PublishEvent_SwapsFields(t, k) ==
    /\ k \in 1..Len(built)
    /\ Publish(t, built[k].topic, built[k].data, built[k].exchange, k)

\* publish_event(event), lines 129-131:
\* self.publish(event.topic, event.exchange, event.data).
PublishEvent(t, k) ==
    /\ k \in 1..Len(built)
    /\ Publish(t, built[k].topic, built[k].exchange, built[k].data, k)

\* publish, lines 122-127, one iteration of `for sub in matched`: the pair
\* is put on the queue (async) or the handler is entered through _invoke.
Dispatch(t) ==
    /\ pub_stack[t] # <<>>
    /\ Top(t).cur = 0
    /\ Top(t).matched # <<>>
    /\ LET f == Top(t)
           sub == Head(f.matched)
       IN  IF bus_async
             THEN /\ queue' = Append(queue, [sub |-> sub, ev |-> f.ev])
                  /\ enqueued' = Append(enqueued, [sub |-> sub, ev |-> f.ev])
                  /\ pub_stack' = SetTop(t, [f EXCEPT !.matched = Tail(@)])
                  /\ UNCHANGED deliveries
             ELSE /\ deliveries' = Append(deliveries, [sub |-> sub, ev |-> f.ev])
                  /\ pub_stack' = SetTop(t, [f EXCEPT !.matched = Tail(@), !.cur = sub])
                  /\ UNCHANGED <<queue, enqueued>>
    /\ UNCHANGED <<bus_async, bus_lock, bus_now, built, subs, created, unsubscribed, published>>

\* _invoke without its try/except: a raising handler ends the publish call
\* with the exception.
HandlerEnd_Propagates(t, outcome) ==
    /\ InHandler(t)
    /\ IF outcome = "raised"
         THEN /\ published' = [published EXCEPT ![Top(t).ev].raised = TRUE,
                                                ![Top(t).ev].ended = "raised"]
              /\ pub_stack' = Pop(t)
         ELSE /\ pub_stack' = SetTop(t, [Top(t) EXCEPT !.cur = 0])
              /\ UNCHANGED published
    /\ UNCHANGED <<bus_async, bus_lock, bus_now, built, unsubscribed, enqueued, subs, created, queue, deliveries>>

\* _invoke, lines 137-144: the handler returns or raises; an Exception is
\* logged and swallowed, and the loop of publish goes on.
HandlerEnd(t, outcome) ==
    /\ InHandler(t)
    /\ published' = [published EXCEPT ![Top(t).ev].raised = @ \/ outcome = "raised"]
    /\ pub_stack' = SetTop(t, [Top(t) EXCEPT !.cur = 0])
    /\ UNCHANGED <<bus_async, bus_lock, bus_now, built, unsubscribed, enqueued, subs, created, queue, deliveries>>

\* publish returns: the loop over `matched` is exhausted.
PublishReturn(t) ==
    /\ pub_stack[t] # <<>>
    /\ Top(t).cur = 0
    /\ Top(t).matched = <<>>
    /\ published' = [published EXCEPT ![Top(t).ev].ended = "returned"]
    /\ pub_stack' = Pop(t)
    /\ UNCHANGED <<bus_async, bus_lock, bus_now, built, unsubscribed, enqueued, subs, created, queue, deliveries>>

\* The delivery thread taking the newest pair of the queue instead of the
\* oldest.
Deliver_Lifo(outcome) ==
    /\ bus_async
    /\ queue # <<>>
    /\ deliveries' = Append(deliveries, queue[Len(queue)])
    /\ published' = [published EXCEPT ![queue[Len(queue)].ev].raised =
                                          @ \/ outcome = "raised"]
    /\ queue' = SubSeq(queue, 1, Len(queue) - 1)
    /\ UNCHANGED <<bus_async, bus_lock, bus_now, built, unsubscribed, enqueued, subs, created, pub_stack>>

\* _delivery_loop without _invoke's try/except and its own: a handler that
\* raises ends the delivery thread, and the pairs still queued are lost.
Deliver_RaiseEndsWorker(outcome) ==
    /\ bus_async
    /\ queue # <<>>
    /\ deliveries' = Append(deliveries, [sub |-> Head(queue).sub, ev |-> Head(queue).ev])
    /\ published' = [published EXCEPT ![Head(queue).ev].raised = @ \/ outcome = "raised"]
    /\ queue' = IF outcome = "raised" THEN <<>> ELSE Tail(queue)
    /\ UNCHANGED <<bus_async, bus_lock, bus_now, built, unsubscribed, enqueued, subs, created, pub_stack>>

\* _delivery_loop, lines 148-155: the delivery thread takes the oldest pair
\* and runs _invoke on it; the handler returns or raises, and the loop goes on.
Deliver(outcome) ==
    /\ bus_async
    /\ queue # <<>>
    /\ deliveries' = Append(deliveries, [sub |-> Head(queue).sub, ev |-> Head(queue).ev])
    /\ published' = [published EXCEPT ![Head(queue).ev].raised = @ \/ outcome = "raised"]
    /\ queue' = Tail(queue)
    /\ UNCHANGED <<bus_async, bus_lock, bus_now, built, unsubscribed, enqueued, subs, created, pub_stack>>

(***************************************************************************)
(* OddsFeed                                                                *)
(***************************************************************************)

\* The sources that have a feed running in the model.
Feeds == {"s1"}
\* Worker threads created per feed in one run of the model.
MaxStarts == 2
\* Poll cycles per feed in one run of the model.
MaxCycles == 3
\* stop() calls per feed in one run of the model.
MaxStops == 2

\* One feed per source, none started, as FeedManager.__init__ builds them.
FeedInit ==
    /\ feed_pc = [s \in Feeds |-> "none"]
    /\ stop_event = [s \in Feeds |-> FALSE]
    /\ first_run = [s \in Feeds |-> FALSE]
    /\ ctl = "idle"
    /\ feed_epoch = [s \in Feeds |-> 0]
    /\ workers = [s \in Feeds |-> {}]
    /\ start_refused = [s \in Feeds |-> FALSE]
    /\ feed_cycle = [s \in Feeds |-> 0]
    /\ cycle_out = [s \in Feeds |-> <<>>]
    /\ feedlog = [s \in Feeds |-> <<>>]

\* self._bus.publish(f"<kind>.{self.name}", ...) by the feed of source s.
FeedPublish(s, kind) ==
    [feedlog EXCEPT ![s] = Append(@, [kind |-> kind, epoch |-> feed_epoch[s],
                                      cycle |-> feed_cycle[s]])]

\* start() without the is_alive() test of lines 88-90: a new worker is
\* created whether or not the previous one is still running.
FeedStart_NoAliveCheck(s) ==
    /\ ctl = "idle"
    /\ feed_epoch[s] < MaxStarts
    /\ stop_event' = [stop_event EXCEPT ![s] = FALSE]
    /\ feed_pc' = [feed_pc EXCEPT ![s] = "loop"]
    /\ first_run' = [first_run EXCEPT ![s] = TRUE]
    /\ feed_epoch' = [feed_epoch EXCEPT ![s] = @ + 1]
    /\ workers' = [workers EXCEPT ![s] = @ \cup {feed_epoch[s] + 1}]
    /\ UNCHANGED <<ctl, start_refused, feed_cycle, cycle_out, feedlog>>
    /\ UNCHANGED authVars

\* start(), lines 87-98: a no-op while the thread is alive; otherwise the
\* stop event is cleared and a new worker enters _loop with first_run = True.
FeedStart(s) ==
    /\ ctl = "idle"
    /\ IF feed_pc[s] # "none"
         THEN /\ start_refused' = [start_refused EXCEPT ![s] = TRUE]
              /\ UNCHANGED <<feed_pc, stop_event, first_run, feed_epoch, workers>>
         ELSE /\ feed_epoch[s] < MaxStarts
              /\ UNCHANGED start_refused
              /\ stop_event' = [stop_event EXCEPT ![s] = FALSE]
              /\ feed_pc' = [feed_pc EXCEPT ![s] = "loop"]
              /\ first_run' = [first_run EXCEPT ![s] = TRUE]
              /\ feed_epoch' = [feed_epoch EXCEPT ![s] = @ + 1]
              /\ workers' = [workers EXCEPT ![s] = @ \cup {feed_epoch[s] + 1}]
    /\ UNCHANGED <<ctl, feed_cycle, cycle_out, feedlog>>
    /\ UNCHANGED authVars

\* stop(), lines 101-103: the stop event is set and the thread is joined.
FeedStop(s) ==
    /\ ctl = "idle"
    /\ Len(SelectSeq(feedlog[s], LAMBDA e : e.kind = "stopped")) < MaxStops
    /\ stop_event' = [stop_event EXCEPT ![s] = TRUE]
    /\ ctl' = s
    /\ UNCHANGED <<feed_pc, first_run, feed_epoch, workers,
                   start_refused, feed_cycle, cycle_out, feedlog>>
    /\ UNCHANGED authVars

\* stop(), lines 103-105: join returns because there is no live thread, or
\* times out while the worker is held in an adapter call or in the handlers
\* of the odds event; feed.stopped is published either way.
FeedStopReturn(s) ==
    /\ ctl = s
    /\ feed_pc[s] \in {"none", "refresh", "get_markets", "polled"}
    /\ feedlog' = FeedPublish(s, "stopped")
    /\ ctl' = "idle"
    /\ UNCHANGED <<feed_pc, stop_event, first_run, feed_epoch, workers,
                   start_refused, feed_cycle, cycle_out>>
    /\ UNCHANGED authVars

\* _loop with `while True:`: the worker goes on polling after stop().
FeedLoopCheck_IgnoresStop(s) ==
    /\ feed_pc[s] = "loop"
    /\ feed_cycle[s] < MaxCycles
    /\ feed_pc' = [feed_pc EXCEPT ![s] = "poll"]
    /\ feed_cycle' = [feed_cycle EXCEPT ![s] = @ + 1]
    /\ cycle_out' = [cycle_out EXCEPT ![s] =
                       Append(@, [session |-> "unchecked", markets |-> "uncalled"])]
    /\ UNCHANGED <<stop_event, first_run, ctl, feed_epoch, workers, start_refused,
                   feedlog>>
    /\ UNCHANGED authVars

\* _loop, line 117: the while test; the thread ends when the event is set.
FeedLoopCheck(s) ==
    /\ feed_pc[s] = "loop"
    /\ IF stop_event[s]
         THEN /\ feed_pc' = [feed_pc EXCEPT ![s] = "none"]
              /\ workers' = [workers EXCEPT ![s] = @ \ {feed_epoch[s]}]
              /\ UNCHANGED <<feed_cycle, cycle_out>>
         ELSE /\ feed_cycle[s] < MaxCycles
              /\ feed_pc' = [feed_pc EXCEPT ![s] = "poll"]
              /\ feed_cycle' = [feed_cycle EXCEPT ![s] = @ + 1]
              /\ cycle_out' = [cycle_out EXCEPT ![s] =
                                 Append(@, [session |-> "unchecked", markets |-> "uncalled"])]
              /\ UNCHANGED workers
    /\ UNCHANGED <<stop_event, first_run, ctl, feed_epoch, start_refused, feedlog>>
    /\ UNCHANGED authVars

\* The session check of the cycle in progress on the worker of s ended as v.
SessionIs(s, v) == [cycle_out EXCEPT ![s][feed_cycle[s]].session = v]

\* The get_markets call of the cycle in progress on the worker of s ended as v.
MarketsIs(s, v) == [cycle_out EXCEPT ![s][feed_cycle[s]].markets = v]

\* _poll, lines 135-137: with a session the adapter is queried next;
\* without one refresh_expired() is called on the worker thread.
PollSessionCheck(s) ==
    /\ feed_pc[s] = "poll"
    /\ IF is_authenticated[s]
         THEN /\ feed_pc' = [feed_pc EXCEPT ![s] = "get_markets"]
              /\ cycle_out' = SessionIs(s, "passed")
              /\ UNCHANGED authVars
         ELSE /\ RefreshExpired(s)
              /\ feed_pc' = [feed_pc EXCEPT ![s] = "refresh"]
              /\ UNCHANGED cycle_out
    /\ UNCHANGED <<stop_event, first_run, ctl, feed_epoch, workers,
                   start_refused, feed_cycle, feedlog>>

\* _poll without the test of line 138: get_markets is called whatever
\* refresh_expired() achieved.
PollRefreshed_IgnoresResult(s) ==
    /\ feed_pc[s] = "refresh"
    /\ ~auth_running[s]
    /\ feed_pc' = [feed_pc EXCEPT ![s] = "get_markets"]
    /\ cycle_out' = SessionIs(s, IF results[s].status = "SUCCESS" THEN "passed" ELSE "failed")
    /\ UNCHANGED <<stop_event, first_run, ctl, feed_epoch, workers,
                   start_refused, feed_cycle, feedlog>>
    /\ UNCHANGED authVars

\* _poll, lines 138-139: refresh_expired() has returned; RuntimeError unless
\* results[self.name].ok, caught in _loop (lines 123-129) where feed.error
\* is published.
PollRefreshed(s) ==
    /\ feed_pc[s] = "refresh"
    /\ ~auth_running[s]
    /\ IF results[s].status = "SUCCESS"
         THEN /\ feed_pc' = [feed_pc EXCEPT ![s] = "get_markets"]
              /\ cycle_out' = SessionIs(s, "passed")
              /\ UNCHANGED feedlog
         ELSE /\ feed_pc' = [feed_pc EXCEPT ![s] = "wait"]
              /\ cycle_out' = SessionIs(s, "failed")
              /\ feedlog' = FeedPublish(s, "error")
    /\ UNCHANGED <<stop_event, first_run, ctl, feed_epoch, workers,
                   start_refused, feed_cycle>>
    /\ UNCHANGED authVars

\* _poll publishing odds before it has the answer of the adapter.
GetMarkets_PublishesFirst(s, outcome) ==
    /\ feed_pc[s] = "get_markets"
    /\ IF outcome = "returned"
         THEN /\ feed_pc' = [feed_pc EXCEPT ![s] = "polled"]
              /\ cycle_out' = MarketsIs(s, "returned")
              /\ feedlog' = FeedPublish(s, "odds")
         ELSE /\ feed_pc' = [feed_pc EXCEPT ![s] = "wait"]
              /\ cycle_out' = MarketsIs(s, "raised")
              /\ feedlog' = [feedlog EXCEPT ![s] =
                                FeedPublish(s, "odds")[s] \o
                                << [kind |-> "error", epoch |-> feed_epoch[s],
                                    cycle |-> feed_cycle[s]] >>]
    /\ UNCHANGED <<stop_event, first_run, ctl, feed_epoch, workers,
                   start_refused, feed_cycle>>
    /\ UNCHANGED authVars

\* _loop without its try/except: a get_markets that raises ends the worker
\* thread, and nothing is published.
GetMarkets_FailureEndsLoop(s, outcome) ==
    /\ feed_pc[s] = "get_markets"
    /\ IF outcome = "returned"
         THEN /\ feed_pc' = [feed_pc EXCEPT ![s] = "polled"]
              /\ cycle_out' = MarketsIs(s, "returned")
              /\ feedlog' = FeedPublish(s, "odds")
         ELSE /\ feed_pc' = [feed_pc EXCEPT ![s] = "none"]
              /\ cycle_out' = MarketsIs(s, "raised")
              /\ UNCHANGED feedlog
    /\ workers' = [workers EXCEPT ![s] =
                      IF outcome = "returned" THEN @ ELSE @ \ {feed_epoch[s]}]
    /\ UNCHANGED <<stop_event, first_run, ctl, feed_epoch, start_refused, feed_cycle>>
    /\ UNCHANGED authVars

\* _loop with the wait inside the try block, after _poll: a cycle that
\* fails goes back to the while test without waiting.
GetMarkets_FailureSkipsWait(s, outcome) ==
    /\ feed_pc[s] = "get_markets"
    /\ IF outcome = "returned"
         THEN /\ feed_pc' = [feed_pc EXCEPT ![s] = "polled"]
              /\ cycle_out' = MarketsIs(s, "returned")
              /\ feedlog' = FeedPublish(s, "odds")
         ELSE /\ feed_pc' = [feed_pc EXCEPT ![s] = "loop"]
              /\ cycle_out' = MarketsIs(s, "raised")
              /\ feedlog' = FeedPublish(s, "error")
    /\ UNCHANGED <<stop_event, first_run, ctl, feed_epoch, workers,
                   start_refused, feed_cycle>>
    /\ UNCHANGED authVars

\* _poll, lines 141-153: get_markets returns, the markets are stamped and
\* odds.<name> is published; or get_markets raises, and _loop (lines
\* 123-129) publishes feed.error.<name>.
GetMarkets(s, outcome) ==
    /\ feed_pc[s] = "get_markets"
    /\ IF outcome = "returned"
         THEN /\ feed_pc' = [feed_pc EXCEPT ![s] = "polled"]
              /\ cycle_out' = MarketsIs(s, "returned")
              /\ feedlog' = FeedPublish(s, "odds")
         ELSE /\ feed_pc' = [feed_pc EXCEPT ![s] = "wait"]
              /\ cycle_out' = MarketsIs(s, "raised")
              /\ feedlog' = FeedPublish(s, "error")
    /\ UNCHANGED <<stop_event, first_run, ctl, feed_epoch, workers,
                   start_refused, feed_cycle>>
    /\ UNCHANGED authVars

\* _loop announcing feed.started after every successful poll.
FirstRunCheck_Always(s) ==
    /\ feed_pc[s] = "polled"
    /\ feedlog' = FeedPublish(s, "started")
    /\ first_run' = [first_run EXCEPT ![s] = FALSE]
    /\ feed_pc' = [feed_pc EXCEPT ![s] = "wait"]
    /\ UNCHANGED <<stop_event, ctl, feed_epoch, workers,
                   start_refused, feed_cycle, cycle_out>>
    /\ UNCHANGED authVars

\* _loop, lines 120-122: after a _poll that returned, feed.started.<name>
\* is published if first_run, and first_run is cleared.
FirstRunCheck(s) ==
    /\ feed_pc[s] = "polled"
    /\ IF first_run[s]
         THEN /\ feedlog' = FeedPublish(s, "started")
              /\ first_run' = [first_run EXCEPT ![s] = FALSE]
         ELSE UNCHANGED <<feedlog, first_run>>
    /\ feed_pc' = [feed_pc EXCEPT ![s] = "wait"]
    /\ UNCHANGED <<stop_event, ctl, feed_epoch, workers,
                   start_refused, feed_cycle, cycle_out>>
    /\ UNCHANGED authVars

\* _loop, line 131: self._stop_event.wait(self._poll_interval) returns, on
\* the event or on the timeout.
FeedWait(s) ==
    /\ feed_pc[s] = "wait"
    /\ feed_pc' = [feed_pc EXCEPT ![s] = "loop"]
    /\ UNCHANGED <<stop_event, first_run, ctl, feed_epoch, workers,
                   start_refused, feed_cycle, cycle_out, feedlog>>
    /\ UNCHANGED authVars

(***************************************************************************)
(* OddsListener                                                            *)
(***************************************************************************)

\* Odds events each exchange publishes in one run of the model.
MaxOdds == 2
\* Largest min_exchanges the listener is built with.
MaxMinExchanges == 3

\* No key for the exchange in _snapshots; no event in a handler.
NoSnapshot == [exchange |-> "none", seq |-> 0]

\* The odds event number k of exchange x: what its feed worker publishes on
\* odds.<x> with exchange=x (feed.py:153); its markets stand for its data.
OddsEvent(x, k) == [exchange |-> x, seq |-> k]

\* The keys of a snapshots dict.
Stored(m) == {x \in Exchanges : m[x] # NoSnapshot}

\* OddsListener.__init__: no snapshot, no comparison run.
ListenInit ==
    /\ min_exchanges \in 1..MaxMinExchanges
    /\ snapshots = [x \in Exchanges |-> NoSnapshot]
    /\ l_pc = [x \in Exchanges |-> "idle"]
    /\ l_event = [x \in Exchanges |-> NoSnapshot]
    /\ l_copy = [x \in Exchanges |-> [y \in Exchanges |-> NoSnapshot]]
    /\ l_count = [x \in Exchanges |-> 0]
    /\ odds_seq = [x \in Exchanges |-> 0]
    /\ handled = <<>>
    /\ comparison_count = 0

\* The handler copying the snapshots before it stores the event's markets.
HandleStore_CopiesBeforeStore(x) ==
    /\ l_pc[x] = "idle"
    /\ odds_seq[x] < MaxOdds
    /\ odds_seq' = [odds_seq EXCEPT ![x] = @ + 1]
    /\ l_event' = [l_event EXCEPT ![x] = OddsEvent(x, odds_seq[x] + 1)]
    /\ snapshots' = [snapshots EXCEPT ![x] = OddsEvent(x, odds_seq[x] + 1)]
    /\ l_copy' = [l_copy EXCEPT ![x] = snapshots]
    /\ l_count' = [l_count EXCEPT ![x] = Cardinality(Stored(snapshots'))]
    /\ l_pc' = [l_pc EXCEPT ![x] = "gate"]
    /\ UNCHANGED <<min_exchanges, handled, comparison_count>>

\* _handle_odds_event, lines 241-252, invoked on the thread that published
\* the next odds event of exchange x: under the lock the event's markets are
\* stored under event.exchange and the dict is copied.
HandleStore(x) ==
    /\ l_pc[x] = "idle"
    /\ odds_seq[x] < MaxOdds
    /\ odds_seq' = [odds_seq EXCEPT ![x] = @ + 1]
    /\ l_event' = [l_event EXCEPT ![x] = OddsEvent(x, odds_seq[x] + 1)]
    /\ snapshots' = [snapshots EXCEPT ![l_event'[x].exchange] = l_event'[x]]
    /\ l_copy' = [l_copy EXCEPT ![x] = snapshots']
    /\ l_count' = [l_count EXCEPT ![x] = Cardinality(Stored(snapshots'))]
    /\ l_pc' = [l_pc EXCEPT ![x] = "gate"]
    /\ UNCHANGED <<min_exchanges, handled, comparison_count>>

\* _handle_odds_event, lines 254-262, and _run_comparison: with fewer than
\* min_exchanges keys in the copy the handler returns; otherwise the
\* comparison is run on the copy, and counted unless compare_markets raises.
HandleGate(x, outcome) ==
    /\ l_pc[x] = "gate"
    /\ IF Cardinality(Stored(l_copy[x])) < min_exchanges
         THEN /\ handled' = Append(handled, [event |-> l_event[x], count |-> l_count[x],
                                             compared |-> FALSE])
              /\ UNCHANGED comparison_count
         ELSE /\ handled' = Append(handled, [event |-> l_event[x], count |-> l_count[x],
                                             compared |-> TRUE])
              /\ comparison_count' = IF outcome = "ok" THEN comparison_count + 1
                                     ELSE comparison_count
    /\ l_pc' = [l_pc EXCEPT ![x] = "idle"]
    /\ UNCHANGED <<min_exchanges, snapshots, l_event, l_copy, l_count, odds_seq>>

(***************************************************************************)
(* Specifications                                                          *)
(***************************************************************************)

\* Each specification starts its own component in any of its initial
\* states and holds the other components in one fixed initial state.
StoreOff == StoreInit /\ files = [d \in Dests |-> NoFile]


\* The components a specification holds still.
BusOff == BusInit /\ bus_async = FALSE

MatchOff == m_topic = <<>> /\ m_pattern = <<>> /\ m_result = "none"

ListenOff == ListenInit /\ min_exchanges = 2

notSched == <<storeVars, authVars, busVars, feedVars, matchVars, listenVars>>
notStore == <<schedVars, authVars, busVars, feedVars, matchVars, listenVars>>
notAuth == <<schedVars, storeVars, busVars, feedVars, matchVars, listenVars>>
notBus == <<schedVars, storeVars, authVars, feedVars, matchVars, listenVars>>
notFeed == <<schedVars, storeVars, busVars, matchVars, listenVars>>
notMatch == <<schedVars, storeVars, authVars, busVars, feedVars, listenVars>>
notListen == <<schedVars, storeVars, authVars, busVars, feedVars, matchVars>>

InitSched == SchedInit /\ StoreOff /\ AuthInit /\ BusOff /\ FeedInit /\ MatchOff /\ ListenOff

NextSched ==
    \/ RunForever /\ UNCHANGED notSched
    \/ LoopCheck /\ UNCHANGED notSched
    \/ RunOnceBegin /\ UNCHANGED notSched
    \/ BatchReturn /\ UNCHANGED notSched
    \/ BatchRaise /\ UNCHANGED notSched
    \/ AfterBatchCheck /\ UNCHANGED notSched
    \/ SleepCheck /\ UNCHANGED notSched
    \/ SleepDone /\ UNCHANGED notSched
    \/ HandleShutdown /\ UNCHANGED notSched

SpecSched == InitSched /\ [][NextSched]_vars

InitStore == StoreInit /\ SchedInit /\ AuthInit /\ BusOff /\ FeedInit /\ MatchOff /\ ListenOff

NextStore ==
    \/ \E c \in Callers : \E ls \in SeqsUpTo(Listings, MaxLen) :
          Save(c, ls) /\ UNCHANGED notStore
    \/ \E c \in Callers : AcquireLock(c) /\ UNCHANGED notStore
    \/ \E c \in Callers : LockTimeout(c) /\ UNCHANGED notStore
    \/ \E c \in Callers : MergeAndWrite(c) /\ UNCHANGED notStore

SpecStore == InitStore /\ [][NextStore]_vars

\* The data directory with a file of d1 that cannot be read back: text that
\* is not JSON, or bytes that are not UTF-8.
UnreadableFiles ==
    { [d \in Dests |-> IF d = "d1" THEN [state |-> st, content |-> <<>>] ELSE NoFile] :
        st \in {"corrupt", "undecodable"} }

InitStoreUnreadable ==
    /\ files \in UnreadableFiles
    /\ files0 = files
    /\ lock = [d \in Dests |-> "none"]
    /\ save_pc = [c \in Callers |-> "idle"]
    /\ groups = [c \in Callers |-> <<>>]
    /\ existing = [c \in Callers |-> <<>>]
    /\ total_written = [c \in Callers |-> 0]
    /\ save_ret = [c \in Callers |-> -1]
    /\ offered = [d \in Dests |-> {}]
    /\ accepted = [d \in Dests |-> {}]
    /\ dropped = [d \in Dests |-> {}]
    /\ timed_out = [c \in Callers |-> 0]
    /\ saves_begun = 0
    /\ writes = 0
    /\ call = [c \in Callers |-> NoCall]
    /\ last_done = NoDone
    /\ SchedInit /\ AuthInit /\ BusOff /\ FeedInit /\ MatchOff /\ ListenOff

SpecStoreUnreadable == InitStoreUnreadable /\ [][NextStore]_vars

InitAuth == AuthInit /\ SchedInit /\ StoreOff /\ BusOff /\ FeedInit /\ MatchOff /\ ListenOff

NextAuth ==
    \/ \E force \in BOOLEAN : AuthenticateAll("main", force) /\ UNCHANGED notAuth
    \/ \E n \in Sources : \E outcome \in {"ok", "false", "raise"} :
          AuthOne("main", n, outcome) /\ UNCHANGED notAuth
    \/ AuthenticateAllReturn("main") /\ UNCHANGED notAuth
    \/ RefreshExpired("main") /\ UNCHANGED notAuth
    \/ AuthenticatedClients /\ UNCHANGED notAuth
    \/ Status /\ UNCHANGED notAuth
    \/ Tick /\ UNCHANGED notAuth

SpecAuth == InitAuth /\ [][NextAuth]_vars

InitBus == BusInit /\ SchedInit /\ StoreOff /\ AuthInit /\ FeedInit /\ MatchOff /\ ListenOff

NextBus ==
    \/ \E c \in SubChoices : Subscribe(c.pattern, c.handler) /\ UNCHANGED notBus
    \/ \E id \in 1..(MaxSubs + 1) : Unsubscribe(id) /\ UNCHANGED notBus
    \/ \E t \in Publishers : \E topic \in Topics :
          Publish(t, topic, DirectExchange, DirectData, 0) /\ UNCHANGED notBus
    \/ \E t \in Publishers : Dispatch(t) /\ UNCHANGED notBus
    \/ \E t \in Publishers : \E outcome \in {"returned", "raised"} :
          HandlerEnd(t, outcome) /\ UNCHANGED notBus
    \/ \E t \in Publishers : PublishReturn(t) /\ UNCHANGED notBus
    \/ \E outcome \in {"returned", "raised"} : Deliver(outcome) /\ UNCHANGED notBus

SpecBus == InitBus /\ [][NextBus]_vars

\* The bus with h1 subscribed on `a.*` and h2 on `a.b`, and callers that
\* build Event objects and hand them to publish_event, next to direct
\* publish calls, while the clock advances.
InitBusEvent ==
    /\ bus_async \in BOOLEAN
    /\ bus_lock = FALSE
    /\ bus_now = 0
    /\ built = <<>>
    /\ created = << [pattern |-> P_aStar, handler |-> "h1"],
                    [pattern |-> P_ab, handler |-> "h2"] >>
    /\ subs = <<1, 2>>
    /\ queue = <<>>
    /\ enqueued = <<>>
    /\ unsubscribed = {}
    /\ pub_stack = [t \in Publishers |-> <<>>]
    /\ published = <<>>
    /\ deliveries = <<>>
    /\ SchedInit /\ StoreOff /\ AuthInit /\ FeedInit /\ MatchOff /\ ListenOff

NextBusEvent ==
    \/ BusTick /\ UNCHANGED notBus
    \/ \E topic \in Topics : \E x \in Exchanges : \E d \in Payloads :
          BuildEvent(topic, x, d) /\ UNCHANGED notBus
    \/ \E k \in 1..MaxBuilt : PublishEvent("p1", k) /\ UNCHANGED notBus
    \/ \E topic \in Topics :
          Publish("p1", topic, DirectExchange, DirectData, 0) /\ UNCHANGED notBus
    \/ Dispatch("p1") /\ UNCHANGED notBus
    \/ \E outcome \in {"returned", "raised"} :
          HandlerEnd("p1", outcome) /\ UNCHANGED notBus
    \/ PublishReturn("p1") /\ UNCHANGED notBus
    \/ \E outcome \in {"returned", "raised"} : Deliver(outcome) /\ UNCHANGED notBus

SpecBusEvent == InitBusEvent /\ [][NextBusEvent]_vars

\* The bus built with async_dispatch=True, h1 subscribed on `a.*` and h2 on
\* `a.b`: a publisher puts pairs on the queue, subscriptions may be removed,
\* and the delivery thread drains the queue.
InitBusAsync == InitBusEvent /\ bus_async

NextBusAsync ==
    \/ \E id \in 1..MaxSubs : Unsubscribe(id) /\ UNCHANGED notBus
    \/ \E topic \in Topics :
          Publish("p1", topic, DirectExchange, DirectData, 0) /\ UNCHANGED notBus
    \/ Dispatch("p1") /\ UNCHANGED notBus
    \/ PublishReturn("p1") /\ UNCHANGED notBus
    \/ \E outcome \in {"returned", "raised"} : Deliver(outcome) /\ UNCHANGED notBus

SpecBusAsync == InitBusAsync /\ [][NextBusAsync]_vars

\* The delivery thread is a `while True` loop that is never ended
\* (lines 147-155), and every handler it invokes returns or raises: while
\* the queue holds a pair, the thread takes the next one.
DeliveryFairness ==
    WF_vars(\E outcome \in {"returned", "raised"} : Deliver(outcome) /\ UNCHANGED notBus)

SpecBusAsyncLive == InitBusAsync /\ [][NextBusAsync]_vars /\ DeliveryFairness

\* Subscription.matches on its own, for every topic of at least one
\* character and every pattern up to the lengths above.
InitMatch ==
    /\ m_topic \in SeqsUpTo(TopicChars, MaxTopicLen) \ {<<>>}
    /\ m_pattern \in SeqsUpTo(PatternChars, MaxPatternLen)
    /\ m_result = "none"
    /\ SchedInit /\ StoreOff /\ AuthInit /\ BusOff /\ FeedInit /\ ListenOff

NextMatch == CallMatches /\ UNCHANGED notMatch

SpecMatch == InitMatch /\ [][NextMatch]_vars

\* The listener with one publishing thread per exchange, as the feeds are.
InitListen ==
    /\ ListenInit
    /\ SchedInit /\ StoreOff /\ AuthInit /\ BusOff /\ FeedInit /\ MatchOff

NextListen ==
    \/ \E x \in Exchanges : HandleStore(x) /\ UNCHANGED notListen
    \/ \E x \in Exchanges : \E outcome \in {"ok", "raise"} :
          HandleGate(x, outcome) /\ UNCHANGED notListen

SpecListen == InitListen /\ [][NextListen]_vars

\* The sessions when the feeds are built: every adapter was authenticated by
\* authenticate_all() at time 0 with success, or was left without a session.
FeedAuthInit ==
    /\ is_authenticated \in [Sources -> BOOLEAN]
    /\ ever_success = is_authenticated
    /\ results = [n \in Sources |->
                     IF is_authenticated[n]
                       THEN AuthResult("SUCCESS", 0, "none")
                       ELSE AuthResult("FAILED", None, "exception")]
    /\ now = 0
    /\ auth_running = [t \in AuthThreads |-> FALSE]
    /\ auth_pending = [t \in AuthThreads |-> {}]
    /\ auth_op = "none"
    /\ ret_clients = {}
    /\ auth_calls = [t \in AuthThreads |-> [n \in Sources |-> 0]]
    /\ auth_stale = [t \in AuthThreads |-> {}]

InitFeed == FeedInit /\ FeedAuthInit /\ SchedInit /\ StoreOff /\ BusOff /\ MatchOff /\ ListenOff

NextFeed ==
    \/ \E s \in Feeds : FeedStart(s) /\ UNCHANGED notFeed
    \/ \E s \in Feeds : FeedStop(s) /\ UNCHANGED notFeed
    \/ \E s \in Feeds : FeedStopReturn(s) /\ UNCHANGED notFeed
    \/ \E s \in Feeds : FeedLoopCheck(s) /\ UNCHANGED notFeed
    \/ \E s \in Feeds : PollSessionCheck(s) /\ UNCHANGED notFeed
    \/ \E s \in Feeds : \E n \in Sources : \E outcome \in {"ok", "false", "raise"} :
          AuthOne(s, n, outcome) /\ UNCHANGED <<feedVars, notFeed>>
    \/ \E s \in Feeds : AuthenticateAllReturn(s) /\ UNCHANGED <<feedVars, notFeed>>
    \/ \E s \in Feeds : PollRefreshed(s) /\ UNCHANGED notFeed
    \/ \E s \in Feeds : \E outcome \in {"returned", "raised"} :
          GetMarkets(s, outcome) /\ UNCHANGED notFeed
    \/ \E s \in Feeds : FirstRunCheck(s) /\ UNCHANGED notFeed
    \/ \E s \in Feeds : FeedWait(s) /\ UNCHANGED notFeed

SpecFeed == InitFeed /\ [][NextFeed]_vars

\* The worker thread of a feed is scheduled: the timed wait of line 131
\* returns and the while test of line 117 is made.
FeedFairness ==
    \A s \in Feeds :
        /\ WF_vars(FeedWait(s) /\ UNCHANGED notFeed)
        /\ WF_vars(FeedLoopCheck(s) /\ UNCHANGED notFeed)

SpecFeedLive == InitFeed /\ [][NextFeed]_vars /\ FeedFairness

\* The feeds as main.py builds them, from the clients that
\* authenticated_clients() returned after authenticate_all(): every adapter
\* holds a session, and no poll cycle has to re-authenticate.
InitFeedReady ==
    /\ InitFeed
    /\ \A n \in Sources : is_authenticated[n]

NextFeedReady ==
    \/ \E s \in Feeds : FeedStart(s) /\ UNCHANGED notFeed
    \/ \E s \in Feeds : FeedStop(s) /\ UNCHANGED notFeed
    \/ \E s \in Feeds : FeedStopReturn(s) /\ UNCHANGED notFeed
    \/ \E s \in Feeds : FeedLoopCheck(s) /\ UNCHANGED notFeed
    \/ \E s \in Feeds : PollSessionCheck(s) /\ UNCHANGED notFeed
    \/ \E s \in Feeds : \E outcome \in {"returned", "raised"} :
          GetMarkets(s, outcome) /\ UNCHANGED notFeed
    \/ \E s \in Feeds : FirstRunCheck(s) /\ UNCHANGED notFeed
    \/ \E s \in Feeds : FeedWait(s) /\ UNCHANGED notFeed

SpecFeedReadyLive == InitFeedReady /\ [][NextFeedReady]_vars /\ FeedFairness

\* A feed that is started and never stopped, with an adapter whose session
\* may be re-established, or lost, by a reauthenticate() outside the
\* AuthManager.
NextFeedSession ==
    \/ \E s \in Feeds : FeedStart(s) /\ UNCHANGED notFeed
    \/ \E s \in Feeds : FeedLoopCheck(s) /\ UNCHANGED notFeed
    \/ \E s \in Feeds : PollSessionCheck(s) /\ UNCHANGED notFeed
    \/ \E s \in Feeds : \E n \in Sources : \E outcome \in {"ok", "false", "raise"} :
          AuthOne(s, n, outcome) /\ UNCHANGED <<feedVars, notFeed>>
    \/ \E s \in Feeds : AuthenticateAllReturn(s) /\ UNCHANGED <<feedVars, notFeed>>
    \/ \E s \in Feeds : PollRefreshed(s) /\ UNCHANGED notFeed
    \/ \E s \in Feeds : \E outcome \in {"returned", "raised"} :
          GetMarkets(s, outcome) /\ UNCHANGED notFeed
    \/ \E s \in Feeds : FirstRunCheck(s) /\ UNCHANGED notFeed
    \/ \E s \in Feeds : FeedWait(s) /\ UNCHANGED notFeed
    \/ \E n \in Feeds : \E outcome \in {"ok", "false"} :
          Reauthenticate(n, outcome) /\ UNCHANGED <<feedVars, notFeed>>

SpecFeedSession == InitFeed /\ [][NextFeedSession]_vars

\* _poll, lines 135-137, on the worker thread of the feed of source t: the
\* adapter reports no session and refresh_expired() is called on the shared
\* AuthManager.
PollReauth(t) ==
    /\ ~is_authenticated[t]
    /\ RefreshExpired(t)

\* One AuthManager shared by the workers of one feed per source: each
\* worker calls refresh_expired() from its own thread, whose pool stores
\* the results of its own attempts.
NextAuthFeeds ==
    \/ \E t \in Sources : PollReauth(t) /\ UNCHANGED <<feedVars, notFeed>>
    \/ \E t \in Sources : \E n \in Sources : \E outcome \in {"ok", "false", "raise"} :
          AuthOne(t, n, outcome) /\ UNCHANGED <<feedVars, notFeed>>
    \/ \E t \in Sources : AuthenticateAllReturn(t) /\ UNCHANGED <<feedVars, notFeed>>
    \/ \E n \in Sources : \E outcome \in {"ok", "false"} :
          Reauthenticate(n, outcome) /\ UNCHANGED <<feedVars, notFeed>>

SpecAuthFeeds == InitFeed /\ [][NextAuthFeeds]_vars

(***************************************************************************)
(* Claims about the Scheduler                                              *)
(***************************************************************************)

\* C3: a batch function that raises during run_forever is caught, so
\* run_forever is never ended by a batch failure: after a failed batch the
\* scheduler is in the inter-batch wait or beyond, never terminated by the
\* exception.
C3_BatchFailureIsCaught ==
    batches_failed > 0 => sched_pc # "crashed"

\* C4 as stated: no batch begins in a state where the stop flag is already
\* set, in every interleaving of the signal handler with the loop.
C4_NoBatchBeginsWithStopSet ==
    begun_after_stop = 0

\* C4, amended: a batch begins with the stop flag set only when the signal
\* arrived between the loop-head test, which saw the flag unset, and the
\* start of that batch; so at most one batch begins after the flag is set.
C4_OnlyTheBatchAlreadyCheckedBegins ==
    /\ begun_after_stop <= 1
    /\ begun_after_stop = 1 => stop_set_at = "run_once"

\* The signal arrived in the window and the batch it could not prevent ran.
C4_Witness ==
    /\ begun_after_stop = 1
    /\ stop_set_at = "run_once"
    /\ sched_pc = "stopped"
    /\ batch_count >= 2

(***************************************************************************)
(* Claims about ClassifiedStorage                                          *)
(***************************************************************************)

FileIds(f) == IF f.state = "ok" THEN Range(f.content) ELSE {}

HasDuplicate(q) == \E i, j \in DOMAIN q : i # j /\ q[i] = q[j]

\* C2: starting from absent or duplicate-free destination files, after any
\* sequence of save calls with any input lists no destination file holds two
\* records with the same id.
C2_NoDuplicateIds ==
    \A d \in Dests : ~HasDuplicate(files[d].content)

TimeExpired(r, t) == r.status = "SUCCESS" /\ r.authenticated_at + TokenTtl <= t

\* C5: every read of session state treats a time-expired session as
\* EXPIRED: authenticated_clients() returns exactly the adapters that are
\* SUCCESS with authenticated_at + token_ttl > now, and when
\* authenticated_clients() or status() returns no result is SUCCESS with
\* authenticated_at + token_ttl <= now: each such result was replaced by
\* EXPIRED with the same authenticated_at.
C5_ReadsTreatExpiredAsExpired ==
    [][ auth_op' \in {"authenticated_clients", "status"} =>
          /\ \A n \in Sources : ~TimeExpired(results'[n], now')
          /\ \A n \in Sources :
                TimeExpired(results[n], now) =>
                    results'[n] = AuthResult("EXPIRED", results[n].authenticated_at, "none")
          /\ auth_op' = "authenticated_clients" =>
                ret_clients' = { n \in Sources :
                                   /\ results[n].status = "SUCCESS"
                                   /\ results[n].authenticated_at + TokenTtl > now }
      ]_vars

\* authenticated_clients() has just swept one session to EXPIRED and
\* returned the other, still valid, one.
C5_Witness ==
    /\ auth_op = "authenticated_clients"
    /\ ret_clients = {"s2"}
    /\ results["s1"].status = "EXPIRED"
    /\ results["s1"].authenticated_at + TokenTtl <= now
    /\ results["s2"].status = "SUCCESS"

\* C9: authenticate_all invokes authenticate() exactly once on each adapter
\* that is PENDING, FAILED, EXPIRED or SUCCESS of age >= token_ttl (with
\* force: on every adapter) and never on an adapter whose SUCCESS session is
\* still valid; with no adapter to authenticate it makes no adapter call and
\* leaves the results map unchanged.
C9_AuthenticatesExactlyTheStale ==
    /\ [](\A n \in Sources :
            /\ auth_calls["main"][n] <= (IF n \in auth_stale["main"] THEN 1 ELSE 0)
            /\ ~auth_running["main"] =>
                  auth_calls["main"][n] = (IF n \in auth_stale["main"] THEN 1 ELSE 0))
    /\ [][ (~auth_running["main"] /\ auth_op' = "authenticate_all") =>
              /\ results' = results
              /\ \A n \in Sources : auth_calls'["main"][n] = 0
              /\ \A n \in Sources : ~StaleAt(results[n], now)
         ]_vars

\* authenticate_all(force=False) has returned after authenticating the
\* aged s1 once and skipping the still valid s2.
C9_Witness ==
    /\ auth_op = "authenticate_all"
    /\ auth_calls["main"] = [n \in Sources |-> IF n = "s1" THEN 1 ELSE 0]
    /\ auth_stale["main"] = {"s1"}
    /\ results["s2"].status = "SUCCESS"
    /\ results["s2"].authenticated_at < now
    /\ results["s1"].status = "SUCCESS"
    /\ results["s1"].authenticated_at = now

(***************************************************************************)
(* Claims about the EventBus                                               *)
(***************************************************************************)

\* Which pattern matches which topic, written out: `a.*` matches `a.b` and
\* `a.c`, `a.b` matches only `a.b`.
ExpectedMatch(pattern, topic) ==
    \/ pattern = P_aStar /\ topic \in {T_ab, T_ac}
    \/ pattern = P_ab /\ topic = T_ab

CountIn(q, x) == Cardinality({i \in 1..Len(q) : q[i] = x})

\* The publish calls in progress for event e.
FramesOf(e) ==
    {f \in {<<t, i>> : t \in Publishers, i \in 1..MaxEvents} :
        f[2] <= Len(pub_stack[f[1]]) /\ pub_stack[f[1]][f[2]].ev = e}

\* Handler invocations of subscription s with event e so far.
Invocations(s, e) == CountIn(deliveries, [sub |-> s, ev |-> e])

\* Invocations of s with e still to come: in the loop of publish or queued.
Pending(s, e) ==
    CountIn(queue, [sub |-> s, ev |-> e])
    + (IF FramesOf(e) = {} THEN 0
       ELSE LET f == CHOOSE g \in FramesOf(e) : TRUE
            IN  CountIn(pub_stack[f[1]][f[2]].matched, s))

\* Subscription s was in the list with a matching pattern when publish took
\* the snapshot for event e.
InSnapshot(s, e) ==
    /\ s \in published[e].subs_at
    /\ ExpectedMatch(created[s].pattern, published[e].topic)

\* Event e is through: publish has returned and no pair of it is queued.
Completed(e) ==
    /\ published[e].ended = "returned"
    /\ \A i \in 1..Len(queue) : queue[i].ev # e

\* C1: for every published event and every subscription ever created, the
\* handler invocations made plus those still to come number exactly one if
\* the subscription was in the list with a matching pattern at the snapshot,
\* and zero otherwise; so once the event is through, each such subscription
\* was invoked exactly once and no other subscription was invoked.
C1_SnapshotMatchInvokedExactlyOnce ==
    \A e \in 1..Len(published) : \A s \in 1..Len(created) :
        /\ Cardinality(FramesOf(e)) <= 1
        /\ Invocations(s, e) + Pending(s, e) = IF InSnapshot(s, e) THEN 1 ELSE 0
        /\ Completed(e) => Invocations(s, e) = IF InSnapshot(s, e) THEN 1 ELSE 0

\* h1 on `a.*`, h2 on `a.b`; `a.b` then `a.c` published and through: h1 was
\* invoked with both events, h2 with the first only.
C1_Witness ==
    /\ Len(created) = 2
    /\ created[1].pattern = P_aStar /\ created[2].pattern = P_ab
    /\ Len(published) = 2
    /\ published[1].topic = T_ab /\ published[2].topic = T_ac
    /\ Completed(1) /\ Completed(2)
    /\ deliveries = << [sub |-> 1, ev |-> 1], [sub |-> 2, ev |-> 1],
                       [sub |-> 1, ev |-> 2] >>

\* C8: no publish call ends by raising, and an event during whose delivery
\* a handler raised still reaches the handler of every subscription matched
\* for it.
C8_HandlerFailureIsContained ==
    \A e \in 1..Len(published) :
        /\ published[e].ended # "raised"
        /\ published[e].raised /\ Completed(e) =>
              \A s \in 1..Len(created) : InSnapshot(s, e) => Invocations(s, e) >= 1

\* A handler raised for an event matched by two subscriptions; both were
\* invoked and publish returned.
C8_Witness ==
    \E e \in 1..Len(published) :
        /\ published[e].raised
        /\ Completed(e)
        /\ Invocations(1, e) = 1 /\ Invocations(2, e) = 1

(***************************************************************************)
(* Claims about the OddsFeed                                               *)
(***************************************************************************)

\* Positions in the log of source s of the events of kind k published by
\* the worker thread number ep.
LogAt(s, k, ep) ==
    {i \in 1..Len(feedlog[s]) : feedlog[s][i].kind = k /\ feedlog[s][i].epoch = ep}

\* The poll cycle that published entry i of the log of s succeeded.
OfSuccessfulPoll(s, i) ==
    /\ cycle_out[s][feedlog[s][i].cycle].session = "passed"
    /\ cycle_out[s][feedlog[s][i].cycle].markets = "returned"

\* C6: for every source and every run of its worker from start() to the
\* end that stop() requests, feed.started is published at most once, and
\* before it comes an odds event of a successful poll of the same run.
C6_StartedOnceAfterSuccessfulPoll ==
    \A s \in Feeds : \A ep \in 1..feed_epoch[s] :
        /\ Cardinality(LogAt(s, "started", ep)) <= 1
        /\ \A i \in LogAt(s, "started", ep) :
              \E j \in LogAt(s, "odds", ep) : j < i /\ OfSuccessfulPoll(s, j)

\* The first cycle of a worker failed and its second succeeded: feed.error,
\* then odds, then feed.started, all of the same worker run.
C6_Witness ==
    \E s \in Feeds : \E ep \in 1..feed_epoch[s] :
        \E i \in LogAt(s, "error", ep) : \E j \in LogAt(s, "odds", ep) :
            \E k \in LogAt(s, "started", ep) : i < j /\ j < k

\* C7: every odds event in the log was published by a cycle whose session
\* check passed and whose get_markets call returned, and a cycle whose
\* session check failed or whose get_markets raised has no odds event.
C7_OddsOnlyFromSuccessfulCycle ==
    \A s \in Feeds :
        /\ \A i \in 1..Len(feedlog[s]) :
              feedlog[s][i].kind = "odds" => OfSuccessfulPoll(s, i)
        /\ \A c \in 1..feed_cycle[s] :
              (cycle_out[s][c].session = "failed" \/ cycle_out[s][c].markets = "raised")
                 => \A i \in 1..Len(feedlog[s]) :
                       ~(feedlog[s][i].kind = "odds" /\ feedlog[s][i].cycle = c)

\* One feed has been through a cycle whose get_markets raised and a cycle
\* that published odds.
C7_Witness ==
    \E s \in Feeds :
        /\ \E i \in 1..Len(feedlog[s]) : feedlog[s][i].kind = "odds"
        /\ \E c \in 1..feed_cycle[s] : cycle_out[s][c].markets = "raised"

\* Cycle c of the feed of s failed: its session check failed or its
\* get_markets raised.
CycleFailed(s, c) ==
    /\ c <= feed_cycle[s]
    /\ \/ cycle_out[s][c].session = "failed"
       \/ cycle_out[s][c].markets = "raised"

\* The kinds of the events in the log of s, in order.
LogKinds(s) == [i \in 1..Len(feedlog[s]) |-> feedlog[s][i].kind]

\* C11: a failed poll cycle has its feed.error event in the log, the worker
\* thread ends only when the stop event is set, and after a failed cycle the
\* worker begins a further cycle unless stop() is called.
C11_FailedCycleIsFollowedByAnother ==
    /\ [](\A s \in Feeds : \A c \in 1..MaxCycles :
             CycleFailed(s, c) =>
                \E i \in 1..Len(feedlog[s]) :
                    feedlog[s][i].kind = "error" /\ feedlog[s][i].cycle = c)
    /\ [][\A s \in Feeds :
             feed_pc[s] # "none" /\ feed_pc'[s] = "none" => stop_event[s]]_vars
    /\ \A s \in Feeds : \A c \in 1..(MaxCycles - 1) :
          (CycleFailed(s, c) /\ feed_cycle[s] = c)
             ~> (feed_cycle[s] > c \/ stop_event[s])

\* The adapter failed on cycle 2 only: odds, feed.started, feed.error, odds.
C11_Witness ==
    \E s \in Feeds :
        /\ LogKinds(s) = <<"odds", "started", "error", "odds">>
        /\ cycle_out[s][2].markets = "raised"
        /\ feed_epoch[s] = 1
        /\ feed_cycle[s] = 3

(***************************************************************************)
(* Further claims about the AuthManager                                    *)
(***************************************************************************)

\* C12: for every source, the stored authenticated_at is set if and only if
\* the stored status of the source has been SUCCESS at some point so far.
C12_AuthenticatedAtIffEverSuccess ==
    \A n \in Sources : (results[n].authenticated_at # None) <=> ever_success[n]

(***************************************************************************)
(* Further claims about the EventBus                                       *)
(***************************************************************************)

\* C13: with async dispatch, the deliveries made so far followed by the
\* pairs still queued are the pairs in the order they were put on the queue,
\* and any one subscription gets the events of one publisher thread in the
\* order of the publish calls (events are numbered in that order).
C13_AsyncDeliveryIsFifo ==
    bus_async =>
        /\ deliveries \o queue = enqueued
        /\ \A i \in 1..Len(deliveries) : \A j \in 1..Len(deliveries) :
              ( /\ i < j
                /\ deliveries[i].sub = deliveries[j].sub
                /\ published[deliveries[i].ev].by = published[deliveries[j].ev].by )
                 => deliveries[i].ev < deliveries[j].ev

\* Async dispatch: p1 published two events, each matched by subscriptions 1
\* and 2, and all four pairs have been delivered.
C13_Witness ==
    /\ bus_async
    /\ Len(published) = 2
    /\ published[1].by = "p1" /\ published[2].by = "p1"
    /\ queue = <<>>
    /\ deliveries = << [sub |-> 1, ev |-> 1], [sub |-> 2, ev |-> 1],
                       [sub |-> 1, ev |-> 2], [sub |-> 2, ev |-> 2] >>

\* C14: with synchronous dispatch, the invocations made for one event are in
\* the order in which their subscriptions were registered (subscription ids
\* are given in that order), and once publish has returned every handler
\* matched for the event has been invoked and none is still running.
C14_SyncRegistrationOrder ==
    ~bus_async =>
        /\ \A i \in 1..Len(deliveries) : \A j \in 1..Len(deliveries) :
              (i < j /\ deliveries[i].ev = deliveries[j].ev)
                 => deliveries[i].sub < deliveries[j].sub
        /\ \A e \in 1..Len(published) :
              published[e].ended = "returned" =>
                 /\ FramesOf(e) = {}
                 /\ \A s \in 1..Len(created) : InSnapshot(s, e) => Invocations(s, e) = 1

\* Synchronous dispatch, three subscriptions registered and the first one
\* unsubscribed before the publish: the handlers of the second and the third
\* were invoked in this order and publish has returned.
C14_Witness ==
    /\ ~bus_async
    /\ Len(created) = 3
    /\ Len(published) >= 1
    /\ published[1].subs_at = {2, 3}
    /\ published[1].ended = "returned"
    /\ SelectSeq(deliveries, LAMBDA d : d.ev = 1)
          = << [sub |-> 2, ev |-> 1], [sub |-> 3, ev |-> 1] >>

\* C15: a handler is invoked only for a subscription that is still in the
\* subscription list at the moment of the invocation, so a subscription
\* removed after the snapshot of a publish and before its turn does not get
\* that event.
C15_RemovedMidPublishNotInvoked ==
    [][Len(deliveries') > Len(deliveries)
          => deliveries'[Len(deliveries')].sub \in Range(subs)]_vars

\* C16: a handler is invoked with an event only for a subscription that was
\* created before the snapshot of that publish and for which no unsubscribe
\* call had returned by then; every subscription created and not yet
\* unsubscribed at the snapshot of a publish whose topic its pattern matches
\* gets that event exactly once; and removing a subscription that is not in
\* the list leaves the list as it is.
C16_LateOrRemovedSubscriptionGetsNothing ==
    /\ \A i \in 1..Len(deliveries) :
          /\ deliveries[i].sub <= published[deliveries[i].ev].known
          /\ deliveries[i].sub \notin published[deliveries[i].ev].gone
    /\ \A e \in 1..Len(published) : \A s \in 1..Len(created) :
          ( /\ s <= published[e].known
            /\ s \notin published[e].gone
            /\ ExpectedMatch(created[s].pattern, published[e].topic) )
             => Invocations(s, e) + Pending(s, e) = 1
    /\ \A id \in 1..(MaxSubs + 1) :
          id \notin Range(subs) => SubsWithout(subs, id) = subs

\* Two subscriptions on `a.*`: the second was added after the snapshot of
\* the first publish and the first was unsubscribed before the second; each
\* got exactly the event published while it was registered.
C16_Witness ==
    /\ Len(created) >= 2
    /\ created[1].pattern = P_aStar /\ created[2].pattern = P_aStar
    /\ Len(published) = 2
    /\ published[1].known = 1 /\ published[1].gone = {}
    /\ published[2].known = 2 /\ published[2].gone = {1}
    /\ Completed(1) /\ Completed(2)
    /\ deliveries = << [sub |-> 1, ev |-> 1], [sub |-> 2, ev |-> 2] >>
    /\ 1 \notin Range(subs)

(***************************************************************************)
(* Further claims about the ClassifiedStorage                              *)
(***************************************************************************)

FinishedBucket(c) == Head(groups[c])

\* Caller c finishes a bucket in this step.
FinishesBucket(c) == groups[c] # <<>> /\ groups'[c] = Tail(groups[c])

C19_LockTimeoutSkipsBucketOnly ==
    [][\A c \in Callers :
          timed_out'[c] > timed_out[c] =>
             /\ files' = files
             /\ IF Len(groups[c]) > 1
                  THEN /\ save_pc'[c] = "locking"
                       /\ groups'[c] = Tail(groups[c])
                       /\ total_written'[c] = total_written[c]
                  ELSE /\ save_pc'[c] = "idle"
                       /\ save_ret'[c] = total_written[c]]_vars

\* A save of one record for d1 and one for d2 has returned 1: its d1 bucket
\* was skipped on a lock timeout and its d2 bucket was written.
C19_Witness ==
    \E c \in Callers :
        /\ save_pc[c] = "idle"
        /\ timed_out[c] = 1
        /\ save_ret[c] = 1
        /\ dropped["d1"] # {}
        /\ files0["d2"].state = "absent"
        /\ files["d2"].content = <<"A">>

\* C20: every authenticate() call made by authenticate_all / refresh_expired
\* ends with a result stored for its source, SUCCESS or FAILED with an error
\* string, whatever the adapter did; the call goes on, the results of the
\* other sources stay as they were stored, and when it returns every source
\* it called has such a result.
C20_AdapterFailureBecomesFailedResult ==
    /\ [][\A n \in Sources :
             auth_calls'["main"][n] > auth_calls["main"][n] =>
                /\ \/ results'[n].status = "SUCCESS" /\ results'[n].error = "none"
                   \/ results'[n].status = "FAILED" /\ results'[n].error # "none"
                /\ \A m \in Sources \ {n} : results'[m] = results[m]
                /\ auth_running'["main"]
                /\ auth_pending'["main"] = auth_pending["main"] \ {n}]_vars
    /\ [][auth_running["main"] /\ ~auth_running'["main"] =>
             \A n \in Sources :
                auth_calls["main"][n] > 0 => results'[n].status \in {"SUCCESS", "FAILED"}]_vars

\* One authenticate_all has returned in which the adapter of s1 failed and
\* the adapter of s2 succeeded: s1 is FAILED with an error string, s2 is
\* SUCCESS.
C20_Witness ==
    /\ auth_op = "authenticate_all"
    /\ auth_calls["main"]["s1"] = 1 /\ auth_calls["main"]["s2"] = 1
    /\ results["s1"].status = "FAILED" /\ results["s1"].error # "none"
    /\ results["s2"].status = "SUCCESS"

\* C21: at the step in which authenticate_all returns, no attempt it
\* dispatched is pending, every source that was stale (or forced) when the
\* call began has had its authenticate() call, and the results map holds a
\* SUCCESS or FAILED result for each of them.
C21_ReturnsAfterEveryAttemptIsStored ==
    [][auth_running["main"] /\ ~auth_running'["main"] =>
          /\ auth_pending["main"] = {}
          /\ \A n \in auth_stale["main"] :
                /\ auth_calls["main"][n] = 1
                /\ results'[n].status \in {"SUCCESS", "FAILED"}]_vars

\* authenticate_all has returned after authenticating both sources with
\* success, the second one a second later than the first.
C21_Witness ==
    /\ auth_op = "authenticate_all"
    /\ auth_stale["main"] = Sources
    /\ auth_pending["main"] = {}
    /\ \A n \in Sources : results[n].status = "SUCCESS" /\ auth_calls["main"][n] = 1
    /\ results["s1"].authenticated_at # results["s2"].authenticated_at

\* What the loop may still do once a signal has set the stop flag, apart from
\* batches: a flag set outside the wait is followed by no sleep step, a flag
\* set during the wait by at most the one-second sleep that was under way,
\* and the flag set during a batch means the wait is never entered.
WaitEndsAtNextCheck ==
    /\ slept_after_stop <= 1
    /\ stop_set_at \notin {"sleep", "sleeping"} => slept_after_stop = 0
    /\ stop /\ sched_pc = "sleeping" =>
          stop_set_at = "sleeping" /\ slept_after_stop = 0
    /\ stop /\ sched_pc = "sleep" => stop_set_at \in {"sleep", "sleeping"}

\* C22 as stated: once a signal has set the stop flag, run_forever does
\* nothing more than finish the batch in progress (it begins none) and at
\* most one further one-second sleep step; a flag set during a batch skips
\* the wait and a flag set during the wait ends it at the next check.
C22_OnlyBatchInProgressThenOneSleepStep ==
    /\ begun_after_stop = 0
    /\ WaitEndsAtNextCheck

\* C22, amended: as above, except that the batch whose loop-head test had
\* already passed when the signal arrived is still begun and finished; after
\* it the wait is skipped as after a batch that was in progress.
C22_BatchInProgressOrCheckedThenOneSleepStep ==
    /\ begun_after_stop <= 1
    /\ begun_after_stop = 1 => stop_set_at = "run_once" /\ slept_after_stop = 0
    /\ WaitEndsAtNextCheck

\* The signal arrived during a one-second sleep step; that step finished and
\* run_forever returned without another.
C22_Witness ==
    /\ stop_set_at = "sleeping"
    /\ slept_after_stop = 1
    /\ sched_pc = "stopped"
    /\ begun_after_stop = 0

\* The number of feed.stopped events of source s published in episode e
\* (e = 0: before the first start()).
StoppedIn(s, e) ==
    Len(SelectSeq(feedlog[s], LAMBDA x : x.kind = "stopped" /\ x.epoch = e))

\* C23: stop() is idempotent: a stop() on a feed that was never started
\* publishes no feed.stopped, and one start()-to-stop() episode yields at
\* most one feed.stopped, however many times stop() is called in it.
C23_StopPublishesStoppedOncePerEpisode ==
    \A s \in Feeds :
        /\ StoppedIn(s, 0) = 0
        /\ \A e \in 1..MaxStarts : StoppedIn(s, e) <= 1

\* C24: at every moment at most one worker thread of a feed is alive, and
\* start() leaves a feed whose worker is alive as it is: a worker is created,
\* and the stop event cleared, only in a step that begins with no worker of
\* that feed alive, and a start() call that finds the worker alive changes
\* nothing of the feed.
C24_AtMostOneWorkerAlive ==
    /\ [](\A s \in Feeds : Cardinality(workers[s]) <= 1)
    /\ [][\A s \in Feeds :
             (feed_epoch'[s] # feed_epoch[s] \/ (stop_event[s] /\ ~stop_event'[s]))
                => /\ workers[s] = {}
                   /\ feed_pc[s] = "none"
                   /\ workers'[s] = {feed_epoch'[s]}]_vars
    /\ [][\A s \in Feeds :
             ~start_refused[s] /\ start_refused'[s]
                => /\ workers[s] # {}
                   /\ UNCHANGED <<feed_pc, stop_event, first_run, ctl, feed_epoch,
                                  workers, feed_cycle, cycle_out, feedlog>>]_vars

\* A start() call found the first worker alive and returned; later that
\* worker was stopped and ended, and the second worker is alive and polling.
C24_Witness ==
    /\ start_refused["s1"]
    /\ workers["s1"] = {2}
    /\ feed_pc["s1"] = "get_markets"
    /\ StoppedIn("s1", 1) = 1

\* The events a worker thread publishes.
WorkerKinds == {"odds", "started", "error"}

\* C25 as stated: when stop() returns the worker of the feed has finished
\* (is_running is false), and no odds, feed.started or feed.error event of
\* the stopped worker follows the feed.stopped event, however long the poll
\* cycle in progress takes.
C25_WorkerFinishedWhenStopReturns ==
    /\ [][\A s \in Feeds : ctl = s /\ ctl' = "idle" => feed_pc'[s] = "none"]_vars
    /\ [](\A s \in Feeds : \A i, j \in DOMAIN feedlog[s] :
             i < j /\ feedlog[s][i].kind = "stopped" /\ feedlog[s][j].kind \in WorkerKinds
                => feedlog[s][j].epoch > feedlog[s][i].epoch)

\* C25, amended: when stop() returns the worker has finished, unless the
\* join timed out; then the worker is still alive with the stop event set,
\* it publishes after feed.stopped only events of the poll cycle that was in
\* progress, and it begins no further cycle (no cycle begins while the stop
\* event is set).
C25_WorkerFinishedUnlessJoinTimedOut ==
    /\ [][\A s \in Feeds : ctl = s /\ ctl' = "idle" =>
             feed_pc'[s] = "none" \/ (stop_event'[s] /\ workers'[s] = {feed_epoch[s]})]_vars
    /\ [](\A s \in Feeds : \A i, j \in DOMAIN feedlog[s] :
             i < j /\ feedlog[s][i].kind = "stopped" /\ feedlog[s][j].kind \in WorkerKinds
                => \/ feedlog[s][j].epoch > feedlog[s][i].epoch
                   \/ /\ feedlog[s][j].epoch = feedlog[s][i].epoch
                      /\ feedlog[s][j].cycle = feedlog[s][i].cycle)
    /\ [][\A s \in Feeds : feed_cycle'[s] # feed_cycle[s] => ~stop_event[s]]_vars

\* stop() returned on the join timeout while get_markets was under way; the
\* worker then published odds and feed.started of that cycle after
\* feed.stopped and ended.
C25_Witness ==
    /\ LogKinds("s1") = <<"stopped", "odds", "started">>
    /\ feedlog["s1"][1].epoch = 1
    /\ feed_pc["s1"] = "none"
    /\ feed_epoch["s1"] = 1
    /\ ctl = "idle"

\* C26: with synchronous dispatch the bus lock is free whenever a handler
\* runs, so a publish call made from inside the handler can take it; and
\* when a handler of an event is invoked, every event published from inside
\* the handlers of that event invoked before is through: its publish call
\* has returned and each subscription matched for it was invoked once.
C26_NestedPublishRunsDepthFirst ==
    /\ [](\A t \in Publishers : InHandler(t) => ~bus_lock)
    /\ [][ (~bus_async /\ Len(deliveries') = Len(deliveries) + 1) =>
             \A n \in 1..Len(published) :
                published[n].parent = deliveries'[Len(deliveries')].ev =>
                   /\ published[n].ended = "returned"
                   /\ FramesOf(n) = {}
                   /\ \A s \in 1..Len(created) :
                         Invocations(s, n) = IF InSnapshot(s, n) THEN 1 ELSE 0 ]_vars

\* Synchronous dispatch, h1 on `a.*` and h2 on `a.b`: h1, invoked with the
\* first event `a.b`, published `a.b` again; both handlers ran with the
\* nested event before h2 was invoked with the outer one.
C26_Witness ==
    /\ ~bus_async
    /\ Len(published) = 2
    /\ published[2].parent = 1
    /\ published[1].ended = "returned"
    /\ deliveries = << [sub |-> 1, ev |-> 1], [sub |-> 1, ev |-> 2],
                       [sub |-> 2, ev |-> 2], [sub |-> 2, ev |-> 1] >>

\* The subscriptions invoked with event n so far, in the order of invocation.
InvokedFor(n) ==
    LET got == SelectSeq(deliveries, LAMBDA d : d.ev = n)
    IN  [i \in 1..Len(got) |-> got[i].sub]

\* What publish(topic, ...) invokes for event n: the subscriptions of the
\* list whose pattern matches the topic, in list order.
DeliveredByPublish(n) ==
    SelectSeq(subs, LAMBDA s : ExpectedMatch(created[s].pattern, published[n].topic))

DistinctIds(ls) ==
    \A i, j \in DOMAIN ls :
        i # j => ~(ls[i].id = ls[j].id /\ ls[i].dest = ls[j].dest)

\* Every listing of ls is in its destination file of fs.
Holds(ls, fs) ==
    \A i \in DOMAIN ls :
        fs[ls[i].dest].state = "ok" /\ ls[i].id \in Range(fs[ls[i].dest].content)

Unreadable(f) == f.state \in {"corrupt", "undecodable"}

\* C29: a save call, with no other save call at the same time, that has a
\* bucket for a destination whose existing file cannot be read or parsed
\* leaves that file holding exactly the records of the bucket, and when
\* none of its destinations held a readable file it returns the number of
\* records passed.
C29_UnreadableFileIsOverwritten ==
    last_done.seq =>
        /\ \A d \in Dests :
              (Unreadable(last_done.before[d]) /\ IdsFor(last_done.ls, d) # <<>>)
                 => last_done.after[d] =
                       [state |-> "ok", content |-> IdsFor(last_done.ls, d)]
        /\ (\A i \in DOMAIN last_done.ls : last_done.before[last_done.ls[i].dest].state # "ok")
              => last_done.ret = Len(last_done.ls)

\* The glob as the specification words it: `*` stands for a run of one or
\* more characters, dots included, `?` for exactly one character, and any
\* other character for itself, against the whole topic.
RECURSIVE GlobOneOrMore(_, _)
GlobOneOrMore(t, q) ==
    IF q = <<>> THEN t = <<>>
    ELSE IF Head(q) = "*"
           THEN t # <<>> /\ (GlobOneOrMore(Tail(t), Tail(q)) \/ GlobOneOrMore(Tail(t), q))
    ELSE IF Head(q) = "?"
           THEN t # <<>> /\ GlobOneOrMore(Tail(t), Tail(q))
    ELSE t # <<>> /\ Head(t) = Head(q) /\ GlobOneOrMore(Tail(t), Tail(q))

HasWildcard(q) == \E i \in DOMAIN q : q[i] \in {"*", "?"}

\* C30: matches is a glob on the whole topic string: `*` matches every
\* topic, `a.*` matches `a.b` and `a.b.c` but not `b.a`, `*`
\* stands for a run of one or more characters including dots and `?` for
\* exactly one character, and a pattern without wildcard characters matches
\* the identical topic only.
C30_MatchesIsGlobWithNonEmptyStar ==
    /\ Matches(<<"a", ".", "b">>, <<"a", ".", "*">>)
    /\ Matches(<<"a", ".", "b", ".", "c">>, <<"a", ".", "*">>)
    /\ ~Matches(<<"b", ".", "a">>, <<"a", ".", "*">>)
    /\ m_result # "none" =>
          /\ m_pattern = <<"*">> => m_result = "True"
          /\ ~HasWildcard(m_pattern) => (m_result = "True" <=> m_topic = m_pattern)
          /\ m_result = "True" <=> GlobOneOrMore(m_topic, m_pattern)

(***************************************************************************)
(* Claims about the session check of a poll cycle                          *)
(***************************************************************************)

\* The session check of the cycle in progress on the worker of s finds
\* is_authenticated false and calls refresh_expired().
SessionCheckFails(s) ==
    feed_pc[s] = "poll" /\ ~is_authenticated[s] /\ feed_pc'[s] = "refresh"

\* The worker of s leaves refresh_expired() only once no authenticate() of
\* its call is outstanding, and every attempt it waited for was a call of
\* authenticate() on the adapter.
RefreshIsJoined(s) ==
    /\ (feed_pc[s] = "refresh" /\ feed_pc'[s] # "refresh") => auth_pending[s] = {}
    /\ \A n \in Sources :
          (n \in auth_pending[s] /\ n \notin auth_pending'[s]) =>
              auth_calls'[s][n] = auth_calls[s][n] + 1

LogOfCycle(s, k, c) ==
    {i \in 1..Len(feedlog[s]) : feedlog[s][i].kind = k /\ feedlog[s][i].cycle = c}

\* C32: in a poll cycle where is_authenticated is false and, after
\* refresh_expired(), the AuthManager's result for the source is not
\* SUCCESS, get_markets is not called, no odds event is published,
\* feed.error is published (once), and the worker goes to the inter-cycle
\* wait and from there to the while test, which begins the next cycle
\* unless the stop event is set.
C32_FailedReauthPublishesErrorAndLoopGoesOn ==
    /\ [][\A s \in Feeds :
             (/\ feed_pc[s] = "refresh"
              /\ feed_pc'[s] # "refresh"
              /\ results[s].status # "SUCCESS")
             => /\ feed_pc'[s] = "wait"
                /\ cycle_out'[s][feed_cycle[s]] = [session |-> "failed", markets |-> "uncalled"]
                /\ feedlog'[s] = Append(feedlog[s], [kind |-> "error", epoch |-> feed_epoch[s],
                                                     cycle |-> feed_cycle[s]])]_vars
    /\ [](\A s \in Feeds : \A c \in 1..feed_cycle[s] :
             cycle_out[s][c].session = "failed" =>
                /\ cycle_out[s][c].markets = "uncalled"
                /\ LogOfCycle(s, "odds", c) = {}
                /\ (c < feed_cycle[s] \/ feed_pc[s] \in {"wait", "loop", "none"})
                      => Cardinality(LogOfCycle(s, "error", c)) = 1)
    /\ [][\A s \in Feeds :
             /\ (feed_pc[s] = "wait" /\ feed_pc'[s] # "wait") => feed_pc'[s] = "loop"
             /\ (feed_pc[s] = "loop" /\ feed_pc'[s] # "loop") =>
                   feed_pc'[s] = (IF stop_event[s] THEN "none" ELSE "poll")]_vars

\* A cycle whose re-authentication failed was followed by a further cycle
\* of the same worker.
C32_Witness ==
    \E s \in Feeds : \E c \in 1..feed_cycle[s] :
        /\ cycle_out[s][c].session = "failed"
        /\ c < feed_cycle[s]
        /\ \E i \in LogOfCycle(s, "error", c) : feedlog[s][i].epoch = feed_epoch[s]

(***************************************************************************)
(* Claims about the session state machine                                  *)
(***************************************************************************)

\* The edges of the state machine of a source, as pairs <<from, to>>.
StatusEdges ==
    { <<"PENDING", "SUCCESS">>, <<"PENDING", "FAILED">>, <<"SUCCESS", "EXPIRED">>,
      <<"EXPIRED", "SUCCESS">>, <<"FAILED", "SUCCESS">>, <<"FAILED", "FAILED">> }

\* C33: for every source, over any sequence of authenticate_all (with or
\* without force), refresh_expired, status and authenticated_clients calls,
\* every change of the stored status follows an edge of the state machine
\* (SUCCESS to EXPIRED only at age >= token_ttl); in particular the status
\* never goes from SUCCESS to FAILED directly.
C33_StatusChangesOnlyAlongEdges ==
    [][\A n \in Sources :
          results'[n].status # results[n].status =>
             /\ <<results[n].status, results'[n].status>> \in StatusEdges
             /\ results'[n].status = "EXPIRED" => IsExpired(results[n])]_vars

\* C34: the authenticated_at of a source changes only in a step that takes
\* its status from PENDING, FAILED or EXPIRED to SUCCESS; no other step,
\* authenticate_all(force=True) on a still-valid SUCCESS session included,
\* changes it.
C34_AuthenticatedAtWrittenOnlyOnEdgeToSuccess ==
    [][\A n \in Sources :
          results'[n].authenticated_at # results[n].authenticated_at =>
             /\ results[n].status \in {"PENDING", "FAILED", "EXPIRED"}
             /\ results'[n].status = "SUCCESS"]_vars

(***************************************************************************)
(* Claims about the OddsListener                                           *)
(***************************************************************************)

\* A comparison is run for an odds event iff, right after its snapshot was
\* stored, at least min_exchanges exchanges have a stored snapshot.
ComparedIffEnoughExchanges ==
    \A i \in 1..Len(handled) :
        handled[i].compared <=> handled[i].count >= min_exchanges

\* No comparison is run for an event handled while a single exchange has
\* published.
NoComparisonOnSingleExchange ==
    \A i \in 1..Len(handled) :
        handled[i].count = 1 => ~handled[i].compared

\* A stored snapshot is replaced only by that of a later event of the same
\* exchange.
ReplacedOnlyByLaterOfSameExchange ==
    \A x \in Exchanges :
        snapshots'[x] # snapshots[x] =>
            /\ snapshots'[x].exchange = x
            /\ snapshots'[x].seq > snapshots[x].seq

InCycle == {"poll", "refresh", "get_markets", "polled"}

\* Cycle c of the feed of s is complete: a later cycle has begun, or the
\* worker is past its publishes, in the wait, at the while test or ended.
CycleComplete(s, c) ==
    c < feed_cycle[s] \/ (c = feed_cycle[s] /\ feed_pc[s] \in {"wait", "loop", "none"})

\* C37: every completed poll cycle has exactly one of odds (iff the session
\* check passed and get_markets returned) and feed.error in the log, never
\* both and never neither; and a worker leaves a cycle, failed or not, only
\* into the interval wait, leaves the wait only to the while test, and
\* begins a cycle only from the while test, so that between two consecutive
\* cycles of a worker there is exactly one wait.
C37_OneOutcomeEventPerCycleAndOneWaitBetweenCycles ==
    /\ [](\A s \in Feeds : \A c \in 1..feed_cycle[s] :
             CycleComplete(s, c) =>
                /\ Cardinality(LogOfCycle(s, "odds", c))
                      + Cardinality(LogOfCycle(s, "error", c)) = 1
                /\ LogOfCycle(s, "odds", c) # {} <=>
                      (cycle_out[s][c].session = "passed"
                          /\ cycle_out[s][c].markets = "returned"))
    /\ [][\A s \in Feeds :
             /\ (feed_pc[s] \in InCycle /\ feed_pc'[s] \notin InCycle) =>
                   feed_pc'[s] = "wait"
             /\ (feed_pc[s] = "wait" /\ feed_pc'[s] # "wait") => feed_pc'[s] = "loop"
             /\ (feed_pc[s] \notin InCycle /\ feed_pc'[s] \in InCycle) =>
                   /\ feed_pc[s] = "loop" /\ feed_pc'[s] = "poll"
                   /\ feed_cycle'[s] = feed_cycle[s] + 1
             /\ (feed_pc[s] # "loop" /\ feed_pc'[s] = "loop") =>
                   feed_pc[s] \in {"wait", "none"}
             /\ feed_cycle'[s] # feed_cycle[s] => feed_pc[s] = "loop"]_vars

\* One worker has completed a failed cycle and then a successful one, and
\* is in the wait after its third.
C37_Witness ==
    \E s \in Feeds :
        /\ feed_cycle[s] = 3 /\ feed_pc[s] = "wait" /\ feed_epoch[s] = 1
        /\ cycle_out[s][1].markets = "raised"
        /\ cycle_out[s][2].markets = "returned"
        /\ LogKinds(s) \in {<<"error", "odds", "started", "odds">>,
                            <<"error", "odds", "started", "error">>}

\* The fields of an AuthResult agree with its status.
FieldsConsistent(r) ==
    CASE r.status = "PENDING" -> r.authenticated_at = None /\ r.error = "none"
      [] r.status \in {"SUCCESS", "EXPIRED"} -> r.authenticated_at # None /\ r.error = "none"
      [] r.status = "FAILED" -> r.error # "none"
      [] OTHER -> FALSE

\* C38: in every reachable state the AuthManager holds exactly one
\* AuthResult per configured source, whose fields agree with its status
\* (PENDING: no authenticated_at, no error; SUCCESS and EXPIRED:
\* authenticated_at set, no error; FAILED: error set), and no source goes
\* back to PENDING once it has left it.
C38_OneConsistentResultPerSourceAndNoReturnToPending ==
    /\ [](/\ DOMAIN results = Sources
          /\ \A n \in Sources : FieldsConsistent(results[n]))
    /\ [][\A n \in Sources :
             results[n].status # "PENDING" => results'[n].status # "PENDING"]_vars

\* One source has expired by age and the other has failed.
C38_Witness ==
    /\ results["s1"] = AuthResult("EXPIRED", 0, "none")
    /\ results["s2"].status = "FAILED"
    /\ now >= TokenTtl

(***************************************************************************)
(* Claims about the delivery thread                                        *)
(***************************************************************************)

\* The most pairs that can be put on the queue in one run of the model.
MaxPairs == MaxEvents * MaxSubs

\* C39: with async dispatch, the handler invocations made so far are the
\* pairs put on the queue, each once and none other, and every pair put on
\* the queue is eventually delivered, the pairs queued behind a pair whose
\* handler raised included.
C39_EveryQueuedPairIsEventuallyDeliveredOnce ==
    /\ [](bus_async =>
             /\ Len(deliveries) <= Len(enqueued)
             /\ \A i \in 1..Len(deliveries) : deliveries[i] = enqueued[i]
             /\ \A i \in 1..Len(enqueued) : \A j \in 1..Len(enqueued) :
                   enqueued[i] = enqueued[j] => i = j)
    /\ \A k \in 1..MaxPairs :
          (bus_async /\ Len(enqueued) >= k) ~> (Len(deliveries) >= k)

\* Four pairs were queued; the handler of the first raised, and the three
\* behind it have been delivered all the same.
C39_Witness ==
    /\ bus_async
    /\ Len(enqueued) = 4
    /\ deliveries = enqueued
    /\ published[1].raised /\ ~published[2].raised
    /\ queue = <<>>

(***************************************************************************)
(* Claims about start() after stop()                                       *)
(***************************************************************************)

\* A start() call of the feed of s returns in this step: it created a
\* worker, or it found the worker alive (seen when that is the first time).
StartReturns(s) ==
    feed_epoch'[s] # feed_epoch[s] \/ start_refused'[s] # start_refused[s]

\* A worker that has not been told to stop does not end, and only stop()
\* sets the stop event.
WorkerRunsUntilStop(s) ==
    /\ (feed_pc[s] # "none" /\ feed_pc'[s] = "none") => stop_event[s]
    /\ (~stop_event[s] /\ stop_event'[s]) => ctl' = s

\* A worker in the wait after a cycle goes on to a further cycle, unless
\* stop() is called (or the run of the model has no cycle left).
WorkerKeepsPolling ==
    \A s \in Feeds :
        (feed_pc[s] = "wait" /\ ~stop_event[s] /\ feed_cycle[s] < MaxCycles)
           ~> (feed_pc[s] = "poll" \/ stop_event[s])

\* C40 as stated: when start() has returned the feed has a live worker
\* whose stop event is clear, and which keeps running poll cycles until the
\* next stop() call, for every sequence of start() and stop() calls, a
\* start() after a stop() whose join timed out included.
C40_StartAlwaysLeavesPollingWorker ==
    /\ [][\A s \in Feeds :
             /\ StartReturns(s) => (feed_pc'[s] # "none" /\ ~stop_event'[s])
             /\ WorkerRunsUntilStop(s)]_vars
    /\ WorkerKeepsPolling

\* C40 amended: a start() that finds no live worker creates one with the
\* stop event clear, which keeps running poll cycles until the next stop()
\* call; a start() that finds the previous worker alive changes nothing,
\* so after a stop() whose join timed out the stop event stays set and the
\* old worker ends with its cycle.
C40_StartLeavesPollingWorkerUnlessOldOneAlive ==
    /\ [][\A s \in Feeds :
             /\ start_refused'[s] # start_refused[s] =>
                   /\ feed_pc[s] # "none"
                   /\ UNCHANGED <<feed_pc, stop_event, feed_epoch, workers>>
             /\ feed_epoch'[s] # feed_epoch[s] =>
                   /\ feed_pc[s] = "none" /\ feed_pc'[s] = "loop"
                   /\ ~stop_event'[s]
                   /\ workers'[s] = {feed_epoch'[s]}
             /\ WorkerRunsUntilStop(s)]_vars
    /\ WorkerKeepsPolling

\* stop() timed out on its join, start() then found the old worker alive
\* and returned, and that worker has ended since: the feed has no worker
\* and its stop event is still set.
C40_Witness ==
    \E s \in Feeds :
        /\ start_refused[s] /\ stop_event[s] /\ ctl = "idle"
        /\ feed_pc[s] = "none" /\ workers[s] = {}
        /\ feed_epoch[s] = 1
        /\ \E i \in LogAt(s, "stopped", 1) : \E j \in LogAt(s, "odds", 1) : i < j

====
